---------------------------- MODULE Spec2Model ----------------------------
(***************************************************************************)
(* A model of the gateway's Bridge (blockchain/bridge.go, kept in          *)
(* src/test/utils.go from line 82 on), of its Block Processor              *)
(* (src/services/block_processor.go) and of the handler of its client      *)
(* connections (src/servers/clienthandler.go).                             *)
(*                                                                         *)
(* Specifications:                                                         *)
(*   SpecFill    one caller fills one Bridge queue, with the capacities    *)
(*               NewBxBridge gives the queues                              *)
(*   SpecBridge  several producers and receivers on all the queues         *)
(*   SpecRoute   SendBlockToNode on the two block queues, empty or one     *)
(*               short of full                                             *)
(*   SpecCodec   one block processor compresses a block and expands the    *)
(*               broadcast, over many blocks and transaction stores        *)
(*   SpecDedup   the processed set of a block processor as time passes     *)
(*   SpecExpand  a block processor expands the broadcasts of a peer        *)
(*   SpecCalc    calcBeaconTransactionLength on short byte strings         *)
(*   SpecRequest one subscribe or unsubscribe request reaches a handler    *)
(*   SpecDeliver the delivery loop of a transaction or block subscription, *)
(*               with and without MultiTxs                                 *)
(*   SpecFanOut  an onBlock or txReceipts subscription, block by block     *)
(*   SpecSession one subscription of each kind, from the subscribe request *)
(*               to the return of its handler; SpecSessionLive with the    *)
(*               fairness of the handler                                   *)
(*   SpecSubmit  one blxr_tx request, from the account check to the reply, *)
(*               with its fallback timer                                   *)
(*   SpecPending several blxr_tx requests for the next validator of BSC,   *)
(*               their timers and the pending table                        *)
(*   SpecUpgrade one request for a websocket connection; SpecAuth with the *)
(*               authorization header of the request                       *)
(*   SpecBatch   one blxr_batch_tx request beside a blxr_tx request        *)
(*   SpecPendingLive  SpecPending with the fairness of the handlers and    *)
(*               the timers                                                *)
(*   SpecReply   one request of each method, and the responses it gets     *)
(*   SpecAlert   producers and receivers of the alert channel              *)
(*   SpecManage  ManageWSServer and the listeners it starts                *)
(*   SpecShared  callers that share one block processor                    *)
(*   SpecRetry   a block processor while the store loses and regains       *)
(*               transactions                                              *)
(***************************************************************************)
EXTENDS Integers, Sequences, FiniteSets, TLC

-----------------------------------------------------------------------------
(* Bounds of the model *)

\* sends issued in SpecBridge and SpecRoute
MaxSends == 2
\* receives issued in SpecBridge and SpecRoute
MaxRecvs == 2
\* refused sends the filling caller issues in a row before it stops (SpecFill)
MaxFails == 2
\* receive-then-refill rounds of the filling caller (SpecFill)
MaxRounds == 2
\* transactions of a block (SpecCodec, SpecDedup)
MaxTxs == 2
\* the minutes the clock runs to (SpecDedup)
MaxTime == 15
\* bytes of an argument of calcBeaconTransactionLength (SpecCalc)
MaxRawLen == 2
\* notifications and error messages the feed manager sends to a subscription
\* after the subscribe request (SpecRequest, SpecDeliver, SpecFanOut)
MaxPublish == 2
\* transactions of a block of the txReceipts feed
MaxBlockTxs == 2
\* blxr_tx requests in flight at a time
MaxRequests == 2
\* transactions of a blxr_batch_tx request
MaxBatch == 2
\* status updates ManageWSServer receives
MaxUpdates == 3
\* callers that share a block processor
MaxCallers == 2

-----------------------------------------------------------------------------
(* Bridge: constants and types *)

transactionBacklog == 2000
transactionHashesBacklog == 1000
blockBacklog == 100
statusBacklog == 10

Nil == "nil"
ErrChannelFull == "channel full"
ErrCouldNotSend == "could not send block"

BxBlockTypeUnknown == "Unknown"
BxBlockTypeEth == "Eth"
BeaconTypes == {"BeaconPhase0", "BeaconAltair", "BeaconBellatrix", "BeaconCapella"}
BlockTypes == {BxBlockTypeUnknown, BxBlockTypeEth} \cup BeaconTypes
\* the Type field of a message that is no block
NoType == "-"

Queues ==
    { "config", "transactionsFromNode", "transactionsFromBDN",
      "transactionHashesFromNode", "transactionHashesRequests",
      "blocksFromNode", "ethBlocksFromBDN", "beaconBlocksFromBDN",
      "confirmedBlockFromNode", "blockchainStatusRequest",
      "blockchainStatusResponse", "nodeConnectionCheckRequest",
      "nodeConnectionCheckResponse", "blockchainConnectionStatus",
      "disconnectEvent", "validatorInfo" }

\* NewBxBridge: the buffer size of each channel
Cap(q) ==
    CASE q = "config" -> 1
      [] q \in {"transactionsFromNode", "transactionsFromBDN",
                "blockchainConnectionStatus"} -> transactionBacklog
      [] q \in {"transactionHashesFromNode", "transactionHashesRequests"}
            -> transactionHashesBacklog
      [] q \in {"blocksFromNode", "ethBlocksFromBDN", "beaconBlocksFromBDN",
                "confirmedBlockFromNode"} -> blockBacklog
      [] q \in {"blockchainStatusRequest", "blockchainStatusResponse",
                "nodeConnectionCheckRequest", "nodeConnectionCheckResponse",
                "disconnectEvent"} -> statusBacklog
      [] q = "validatorInfo" -> 1

Producers == {"p1", "p2"}
Receivers == {"r1", "r2"}
NoQueue == "none"

VARIABLES
    beaconBlock,   \* BxBridge.beaconBlock
    chans,         \* the buffer of each channel of BxBridge, oldest first
    sendq,         \* callers parked in a blocking send on config, oldest first
    pc,            \* each producer: "idle" or "blocked" inside a call
    lastCall,      \* the last producer call that returned: op, item, err
    nSends,        \* producer calls issued so far
    nRecvs,        \* receives done so far
    sentOk,        \* per queue: the items whose send returned nil, in order
    rcvd,          \* per queue: the items received, with their receiver, in order
    refused,       \* the items whose send returned ErrChannelFull
    waiting,       \* the receivers blocked in a receive from noActiveBlockchainPeers
    tq,            \* SpecFill: the queue the caller fills
    ttype,         \* SpecFill: the block type the caller sends
    sinceRecv,     \* SpecFill: sends issued since the last receive
    okSince,       \* SpecFill: those of them that returned nil
    failsSince,    \* SpecFill: those of them that returned ErrChannelFull
    rounds,        \* SpecFill: receives done
    processedBlocks, \* blockProcessor.processedBlocks: key -> time it expires
    txStore,       \* blockProcessor.txStore: tx hash -> entry of the store
    now,           \* time.Now(), in minutes
    blk,           \* the block a node hands to this gateway
    wire,          \* the last broadcast BxBlockToBroadcast made, and its block
    bpLast,        \* the last call of the block processor and what it returned
    bpTurn,        \* flips at every call of the block processor
    inflight,      \* the calls of the block processor that callers sharing it
                   \* have begun: what each has checked, and what it returned
    encodedAt,     \* key -> time BxBlockToBroadcast last succeeded for it
    expandedAt,    \* hash -> time BxBlockFromBroadcast last succeeded for it
    rawTx,         \* the argument of calcBeaconTransactionLength
    txLen,         \* what calcBeaconTransactionLength returned for rawTx
    gateway,       \* FeedManager: node endpoints, networkNum, accountModel
    connAccount,   \* handlerObj.connectionAccount
    request,       \* the JSON-RPC request Handle is called with
    clientReq,     \* what createClientReq returned for the request
    subscriptions, \* FeedManager: subscription ID -> feed and includes
    sent,          \* what was written to the connection, in order
    connected,     \* the client has not disconnected
    hpc,           \* where Handle stands
    feedChan,      \* sub.FeedChan: the notifications buffered, oldest first
    chanOpen,      \* sub.FeedChan is not closed
    errMsgChan,    \* sub.ErrMsgChan: the messages buffered
    pulled,        \* the notifications Handle received from sub.FeedChan
    nPublished,    \* what the feed manager has sent to the subscription so far
    batch,         \* multiTxsResponse.Result
    curBlock,      \* the block whose calls or receipt fetches are running
    taskPc,        \* each goroutine of curBlock: "started", or how it returned
    callActive,    \* RPCCall.active of each call of clientReq.calls
    synced,        \* the node endpoint manager has a synced provider
    txGateway,     \* FeedManager: what a transaction submission reads of it
    sub,           \* each blxr_tx request: account, params, where Handle stands,
                   \* what ValidateTxFromExternalSource returned, what was written
    handled,       \* the calls of node.HandleMsg with a transaction, in order
    pendingTxs,    \* FeedManager.pendingBSCNextValidatorTxHashToInfo
    timers,        \* the timers of time.AfterFunc, in the order they were armed
    mutex,         \* who holds the lock of the pending table, or "free"
    nStashed,      \* entries put into the pending table so far
    wsReq,         \* the upgrade request of a websocket client
    wsOut,         \* what wsHandler did with the upgrade request
    wsServer       \* ClientHandler: websocketServer, the servers made so far,
                   \* the goroutines of runWSServer, where ManageWSServer stands

bridgeVars == <<beaconBlock, chans, sendq, pc, lastCall, nSends, nRecvs,
                sentOk, rcvd, refused, waiting>>
fillVars == <<tq, ttype, sinceRecv, okSince, failsSince, rounds>>
bpVars == <<processedBlocks, txStore, now, blk, wire, bpLast, bpTurn, inflight, encodedAt,
           expandedAt>>
calcVars == <<rawTx, txLen>>
reqVars == <<gateway, connAccount, request, clientReq>>
loopVars == <<feedChan, chanOpen, errMsgChan, pulled, nPublished, batch>>
fanVars == <<curBlock, taskPc, callActive, synced>>
chVars == <<reqVars, subscriptions, sent, connected, hpc, loopVars, fanVars>>
subVars == <<txGateway, sub, handled, pendingTxs, timers, mutex, nStashed>>
wsVars == <<wsReq, wsOut, wsServer>>
restVars == <<calcVars, chVars, subVars, wsVars>>
vars == <<bridgeVars, fillVars, bpVars, restVars>>

\* a map without entries
EmptyMap == [k \in {} |-> 0]

\* types.EmptyHash, a nil byte slice, a nil *big.Int
EmptyHash == ""
NoBytes == <<>>
NilInt == <<>>

NoBlock == [Type |-> NoType, Hash |-> EmptyHash, BeaconHash |-> EmptyHash,
            Header |-> NoBytes, Txs |-> <<>>, Trailer |-> NoBytes,
            TotalDifficulty |-> NilInt, Number |-> NilInt]
NoBroadcast == [Hash |-> EmptyHash, BeaconHash |-> EmptyHash, BlockType |-> NoType,
                Block |-> [codec |-> "none"], ShortIDs |-> <<>>, NetworkNum |-> 0]
NoWire == [bc |-> NoBroadcast, from |-> NoBlock, minTxAge |-> 0, fresh |-> FALSE]
NoBpCall == [op |-> "none", block |-> NoBlock, bc |-> NoBroadcast, ids |-> <<>>,
             err |-> Nil, minTxAge |-> 0]

\* no block processor runs in the specifications of the Bridge
BpIdle ==
    /\ processedBlocks = EmptyMap
    /\ txStore = EmptyMap
    /\ now = 0
    /\ blk = NoBlock
    /\ wire = NoWire
    /\ bpLast = NoBpCall
    /\ bpTurn = 0
    /\ inflight = EmptyMap
    /\ encodedAt = EmptyMap
    /\ expandedAt = EmptyMap

\* calcBeaconTransactionLength has not been called
NoLen == <<>>
CalcIdle ==
    /\ rawTx = NoBytes
    /\ txLen = NoLen

\* no request has reached a client handler
NoGateway == [providers |-> 0, networkNum |-> "-", AccountID |-> "-",
              subscribeOk |-> TRUE]
NoService == [expired |-> TRUE, AllowFiltering |-> FALSE, AvailableFields |-> {}]
NoAccount == [AccountID |-> "-", NewTransactionStreaming |-> NoService,
              PendingTransactionStreaming |-> NoService,
              NewBlockStreaming |-> NoService, OnBlockFeed |-> NoService,
              TransactionReceiptFeed |-> NoService]
NoRequest == [method |-> "-"]
NoClientReq == [err |-> "-"]
NoNotification == [id |-> 0, eval |-> "-", txs |-> 0]
HandlerIdle ==
    /\ gateway = NoGateway
    /\ connAccount = NoAccount
    /\ request = NoRequest
    /\ clientReq = NoClientReq
    /\ subscriptions = EmptyMap
    /\ sent = <<>>
    /\ connected = FALSE
    /\ hpc = "-"
    /\ feedChan = <<>>
    /\ chanOpen = FALSE
    /\ errMsgChan = <<>>
    /\ pulled = <<>>
    /\ nPublished = 0
    /\ batch = <<>>
    /\ curBlock = NoNotification
    /\ taskPc = EmptyMap
    /\ callActive = EmptyMap
    /\ synced = FALSE

\* no transaction has been submitted
NoTxGateway == [AccountID |-> "-"]
SubmitIdle ==
    /\ txGateway = NoTxGateway
    /\ sub = EmptyMap
    /\ handled = <<>>
    /\ pendingTxs = EmptyMap
    /\ timers = <<>>
    /\ mutex = "free"
    /\ nStashed = 0

\* no client has asked for a websocket connection
NoUpgrade == [pc |-> "-"]
NoServer == [pc |-> "-"]
UpgradeIdle ==
    /\ wsServer = NoServer
    /\ wsReq = NoUpgrade
    /\ wsOut = NoUpgrade

\* nothing but the Bridge and the block processor runs
RestIdle == CalcIdle /\ HandlerIdle /\ SubmitIdle /\ UpgradeIdle

NoCall == [op |-> "none", item |-> [id |-> 0, by |-> "-", Type |-> NoType],
           err |-> Nil]

-----------------------------------------------------------------------------
(* Bridge: the producer operations.  Each takes the channels and gives the  *)
(* channels after the call and the error returned.                          *)

\* TrySend with the capacity test off by one
TrySendOffByOne(ch, q, item) ==
    IF Len(ch[q]) <= Cap(q)
    THEN [chans |-> [ch EXCEPT ![q] = Append(@, item)], err |-> Nil]
    ELSE [chans |-> ch, err |-> ErrChannelFull]

\* TrySend putting the item in front of the buffer
TrySendLifo(ch, q, item) ==
    IF Len(ch[q]) < Cap(q)
    THEN [chans |-> [ch EXCEPT ![q] = <<item>> \o @], err |-> Nil]
    ELSE [chans |-> ch, err |-> ErrChannelFull]

\* select { case ch <- item: return nil; default: return ErrChannelFull }
TrySend(ch, q, item) ==
    IF Len(ch[q]) < Cap(q)
    THEN [chans |-> [ch EXCEPT ![q] = Append(@, item)], err |-> Nil]
    ELSE [chans |-> ch, err |-> ErrChannelFull]

AnnounceTransactionHashes(ch, item) == TrySend(ch, "transactionHashesFromNode", item)
RequestTransactionsFromNode(ch, item) == TrySend(ch, "transactionHashesRequests", item)
SendTransactionsFromBDN(ch, item) == TrySend(ch, "transactionsFromBDN", item)
SendTransactionsToBDN(ch, item) == TrySend(ch, "transactionsFromNode", item)
SendConfirmedBlockToGateway(ch, item) == TrySend(ch, "confirmedBlockFromNode", item)
SendBlockToBDN(ch, item) == TrySend(ch, "blocksFromNode", item)
SendBlockchainStatusRequest(ch, item) == TrySend(ch, "blockchainStatusRequest", item)
SendBlockchainStatusResponse(ch, item) == TrySend(ch, "blockchainStatusResponse", item)
SendNodeConnectionCheckRequest(ch, item) == TrySend(ch, "nodeConnectionCheckRequest", item)
SendNodeConnectionCheckResponse(ch, item) == TrySend(ch, "nodeConnectionCheckResponse", item)
SendValidatorListInfo(ch, item) == TrySend(ch, "validatorInfo", item)
SendBlockchainConnectionStatus(ch, item) == TrySend(ch, "blockchainConnectionStatus", item)
SendDisconnectEvent(ch, item) == TrySend(ch, "disconnectEvent", item)

\* SendBlockToNode without the test of b.beaconBlock
SendBlockToNodeNoFlag(ch, bb, block) ==
    CASE block.Type = BxBlockTypeEth -> TrySend(ch, "ethBlocksFromBDN", block)
      [] block.Type \in BeaconTypes -> TrySend(ch, "beaconBlocksFromBDN", block)
      [] OTHER -> [chans |-> ch, err |-> ErrCouldNotSend]

SendBlockToNode(ch, bb, block) ==
    CASE block.Type = BxBlockTypeEth -> TrySend(ch, "ethBlocksFromBDN", block)
      [] block.Type \in BeaconTypes ->
            IF ~bb
            THEN [chans |-> ch, err |-> Nil]
            ELSE TrySend(ch, "beaconBlocksFromBDN", block)
      [] OTHER -> [chans |-> ch, err |-> ErrCouldNotSend]

\* the operations that send without blocking, and the queue each one names
UniformOps ==
    { "AnnounceTransactionHashes", "RequestTransactionsFromNode",
      "SendTransactionsFromBDN", "SendTransactionsToBDN",
      "SendConfirmedBlockToGateway", "SendBlockToBDN",
      "SendBlockchainStatusRequest", "SendBlockchainStatusResponse",
      "SendNodeConnectionCheckRequest", "SendNodeConnectionCheckResponse",
      "SendValidatorListInfo", "SendBlockchainConnectionStatus",
      "SendDisconnectEvent" }
SendOps == UniformOps \cup {"SendBlockToNode"}

Call(op, ch, bb, item) ==
    CASE op = "AnnounceTransactionHashes" -> AnnounceTransactionHashes(ch, item)
      [] op = "RequestTransactionsFromNode" -> RequestTransactionsFromNode(ch, item)
      [] op = "SendTransactionsFromBDN" -> SendTransactionsFromBDN(ch, item)
      [] op = "SendTransactionsToBDN" -> SendTransactionsToBDN(ch, item)
      [] op = "SendConfirmedBlockToGateway" -> SendConfirmedBlockToGateway(ch, item)
      [] op = "SendBlockToBDN" -> SendBlockToBDN(ch, item)
      [] op = "SendBlockchainStatusRequest" -> SendBlockchainStatusRequest(ch, item)
      [] op = "SendBlockchainStatusResponse" -> SendBlockchainStatusResponse(ch, item)
      [] op = "SendNodeConnectionCheckRequest" -> SendNodeConnectionCheckRequest(ch, item)
      [] op = "SendNodeConnectionCheckResponse" -> SendNodeConnectionCheckResponse(ch, item)
      [] op = "SendValidatorListInfo" -> SendValidatorListInfo(ch, item)
      [] op = "SendBlockchainConnectionStatus" -> SendBlockchainConnectionStatus(ch, item)
      [] op = "SendDisconnectEvent" -> SendDisconnectEvent(ch, item)
      [] op = "SendBlockToNode" -> SendBlockToNode(ch, bb, item)


-----------------------------------------------------------------------------
(* Bridge: state after NewBxBridge, and the steps of its callers *)

EmptyChans == [q \in Queues |-> <<>>]

\* the caller of SpecFill is idle in the other specifications
FillIdle ==
    /\ tq = NoQueue
    /\ ttype = NoType
    /\ sinceRecv = 0
    /\ okSince = 0
    /\ failsSince = 0
    /\ rounds = 0

\* NewBxBridge(converter, bb); ch are the items earlier sends left buffered
BridgeStarts(bb, ch) ==
    /\ beaconBlock = bb
    /\ chans = ch
    /\ sendq = <<>>
    /\ pc = [p \in Producers |-> "idle"]
    /\ lastCall = NoCall
    /\ nSends = 0
    /\ nRecvs = 0
    /\ sentOk = ch
    /\ rcvd = EmptyChans
    /\ refused = {}
    /\ waiting = {}

\* the queue the Bridge interface names for an operation and its argument;
\* NoQueue when the call is to deliver nothing
Feeds(op, item, bb) ==
    CASE op = "AnnounceTransactionHashes" -> "transactionHashesFromNode"
      [] op = "RequestTransactionsFromNode" -> "transactionHashesRequests"
      [] op = "SendTransactionsFromBDN" -> "transactionsFromBDN"
      [] op = "SendTransactionsToBDN" -> "transactionsFromNode"
      [] op = "SendConfirmedBlockToGateway" -> "confirmedBlockFromNode"
      [] op = "SendBlockToBDN" -> "blocksFromNode"
      [] op = "SendBlockchainStatusRequest" -> "blockchainStatusRequest"
      [] op = "SendBlockchainStatusResponse" -> "blockchainStatusResponse"
      [] op = "SendNodeConnectionCheckRequest" -> "nodeConnectionCheckRequest"
      [] op = "SendNodeConnectionCheckResponse" -> "nodeConnectionCheckResponse"
      [] op = "SendValidatorListInfo" -> "validatorInfo"
      [] op = "SendBlockchainConnectionStatus" -> "blockchainConnectionStatus"
      [] op = "SendDisconnectEvent" -> "disconnectEvent"
      [] op = "UpdateNetworkConfig" -> "config"
      [] op = "SendBlockToNode" ->
            IF item.Type = BxBlockTypeEth THEN "ethBlocksFromBDN"
            ELSE IF item.Type \in BeaconTypes /\ bb THEN "beaconBlocksFromBDN"
            ELSE NoQueue

\* producer p calls one of the non-blocking operations
ProducerSend(p, op, ty) ==
    /\ pc[p] = "idle"
    /\ nSends < MaxSends
    /\ LET item == [id |-> nSends + 1, by |-> p, Type |-> ty]
           r == Call(op, chans, beaconBlock, item)
           q == Feeds(op, item, beaconBlock)
       IN /\ chans' = r.chans
          /\ lastCall' = [op |-> op, item |-> item, err |-> r.err]
          /\ sentOk' = IF r.err = Nil /\ q # NoQueue
                       THEN [sentOk EXCEPT ![q] = Append(@, item)]
                       ELSE sentOk
          /\ refused' = IF r.err = ErrChannelFull THEN refused \cup {item}
                        ELSE refused
    /\ nSends' = nSends + 1
    /\ UNCHANGED <<beaconBlock, sendq, pc, nRecvs, rcvd, waiting, fillVars, bpVars, restVars>>

\* UpdateNetworkConfig: b.config <- config; return nil.  The send blocks while
\* the buffer is full: the caller parks until a receiver makes room.
UpdateNetworkConfig(p) ==
    /\ pc[p] = "idle"
    /\ nSends < MaxSends
    /\ LET item == [id |-> nSends + 1, by |-> p, Type |-> NoType]
       IN IF Len(chans["config"]) < Cap("config")
          THEN /\ chans' = [chans EXCEPT !["config"] = Append(@, item)]
               /\ lastCall' = [op |-> "UpdateNetworkConfig", item |-> item, err |-> Nil]
               /\ sentOk' = [sentOk EXCEPT !["config"] = Append(@, item)]
               /\ UNCHANGED <<sendq, pc>>
          ELSE /\ sendq' = Append(sendq, item)
               /\ pc' = [pc EXCEPT ![p] = "blocked"]
               /\ UNCHANGED <<chans, lastCall, sentOk>>
    /\ nSends' = nSends + 1
    /\ UNCHANGED <<beaconBlock, nRecvs, rcvd, refused, waiting, fillVars, bpVars, restVars>>

\* receiver r takes the oldest item of the channel a Receive* accessor gave it;
\* on config, the oldest parked sender then completes its send and returns nil
Receive(r, q) ==
    /\ nRecvs < MaxRecvs
    /\ Len(chans[q]) > 0
    /\ rcvd' = [rcvd EXCEPT ![q] = Append(@, [item |-> Head(chans[q]), by |-> r])]
    /\ IF q = "config" /\ Len(sendq) > 0
       THEN /\ chans' = [chans EXCEPT ![q] = Append(Tail(@), Head(sendq))]
            /\ sendq' = Tail(sendq)
            /\ pc' = [pc EXCEPT ![Head(sendq).by] = "idle"]
            /\ lastCall' = [op |-> "UpdateNetworkConfig", item |-> Head(sendq), err |-> Nil]
            /\ sentOk' = [sentOk EXCEPT ![q] = Append(@, Head(sendq))]
       ELSE /\ chans' = [chans EXCEPT ![q] = Tail(@)]
            /\ UNCHANGED <<sendq, pc, lastCall, sentOk>>
    /\ nRecvs' = nRecvs + 1
    /\ UNCHANGED <<beaconBlock, nSends, refused, waiting, fillVars, bpVars, restVars>>

-----------------------------------------------------------------------------
(* SpecBridge: several producers and receivers on a new Bridge *)

InitBridge ==
    /\ \E bb \in BOOLEAN : BridgeStarts(bb, EmptyChans)
    /\ FillIdle
    /\ BpIdle
    /\ RestIdle

NextBridge ==
    \/ \E p \in Producers, op \in UniformOps : ProducerSend(p, op, NoType)
    \/ \E p \in Producers, ty \in BlockTypes : ProducerSend(p, "SendBlockToNode", ty)
    \/ \E p \in Producers : UpdateNetworkConfig(p)
    \/ \E r \in Receivers, q \in Queues : Receive(r, q)

SpecBridge == InitBridge /\ [][NextBridge]_vars

-----------------------------------------------------------------------------
(* SpecRoute: SendBlockToNode and the receivers of the two block queues.    *)
(* Earlier sends have left each block queue empty or one short of full.     *)

BlockQueues == {"ethBlocksFromBDN", "beaconBlocksFromBDN"}

\* n blocks of type ty that earlier sends left buffered
Backlog(n, ty) == [i \in 1..n |-> [id |-> 0 - i, by |-> "p1", Type |-> ty]]

InitRoute ==
    /\ \E bb \in BOOLEAN, ne \in {0, blockBacklog - 1}, nb \in {0, blockBacklog - 1} :
          /\ ~bb => nb = 0
          /\ BridgeStarts(bb, [EmptyChans EXCEPT
                 !["ethBlocksFromBDN"] = Backlog(ne, BxBlockTypeEth),
                 !["beaconBlocksFromBDN"] = Backlog(nb, "BeaconCapella")])
    /\ FillIdle
    /\ BpIdle
    /\ RestIdle

NextRoute ==
    \/ \E p \in Producers, ty \in BlockTypes : ProducerSend(p, "SendBlockToNode", ty)
    \/ \E r \in Receivers, q \in BlockQueues : Receive(r, q)

SpecRoute == InitRoute /\ [][NextRoute]_vars

-----------------------------------------------------------------------------
(* SpecFill: one caller fills one queue of a new Bridge, sees ErrChannelFull, *)
(* receives once and sends again.                                             *)

\* the operation that feeds queue q
FillOp(q) ==
    IF q \in BlockQueues THEN "SendBlockToNode"
    ELSE CHOOSE op \in UniformOps : Feeds(op, NoCall.item, FALSE) = q

FillQueues == Queues \ {"config"}

InitFill ==
    /\ \E bb \in BOOLEAN : BridgeStarts(bb, EmptyChans)
    /\ tq \in FillQueues
    /\ ttype \in BlockTypes \cup {NoType}
    /\ tq = "ethBlocksFromBDN" => ttype = BxBlockTypeEth
    /\ tq = "beaconBlocksFromBDN" => ttype \in BeaconTypes /\ beaconBlock
    /\ tq \notin BlockQueues => ttype = NoType /\ ~beaconBlock
    /\ sinceRecv = 0
    /\ okSince = 0
    /\ failsSince = 0
    /\ rounds = 0
    /\ BpIdle
    /\ RestIdle

FillSend ==
    /\ tq # NoQueue
    /\ failsSince < MaxFails
    /\ LET item == [id |-> nSends + 1, by |-> "p1", Type |-> ttype]
           r == Call(FillOp(tq), chans, beaconBlock, item)
       IN /\ chans' = r.chans
          /\ lastCall' = [op |-> FillOp(tq), item |-> item, err |-> r.err]
          /\ okSince' = IF r.err = Nil THEN okSince + 1 ELSE okSince
          /\ failsSince' = IF r.err = ErrChannelFull THEN failsSince + 1 ELSE failsSince
    /\ sinceRecv' = sinceRecv + 1
    /\ nSends' = nSends + 1
    /\ UNCHANGED <<beaconBlock, sendq, pc, nRecvs, sentOk, rcvd, refused, waiting, tq, ttype, rounds, bpVars, restVars>>

FillReceive ==
    /\ tq # NoQueue
    /\ rounds < MaxRounds
    /\ lastCall.err = ErrChannelFull
    /\ Len(chans[tq]) > 0
    /\ chans' = [chans EXCEPT ![tq] = Tail(@)]
    /\ lastCall' = NoCall
    /\ rounds' = rounds + 1
    /\ sinceRecv' = 0
    /\ okSince' = 0
    /\ failsSince' = 0
    /\ nRecvs' = nRecvs + 1
    /\ UNCHANGED <<beaconBlock, sendq, pc, nSends, sentOk, rcvd, refused, waiting, tq, ttype, bpVars, restVars>>

NextFill ==
    \/ FillSend
    \/ FillReceive

SpecFill == InitFill /\ [][NextFill]_vars


-----------------------------------------------------------------------------
(* Bridge: the properties *)

Min(a, b) == IF a < b THEN a ELSE b

\* the capacities the specification's table of queues states
TableCap(q) ==
    CASE q \in {"transactionHashesFromNode", "transactionHashesRequests"} -> 1000
      [] q \in {"transactionsFromNode", "transactionsFromBDN",
                "blockchainConnectionStatus"} -> 2000
      [] q \in {"blocksFromNode", "ethBlocksFromBDN", "beaconBlocksFromBDN",
                "confirmedBlockFromNode"} -> 100
      [] q \in {"blockchainStatusRequest", "blockchainStatusResponse",
                "nodeConnectionCheckRequest", "nodeConnectionCheckResponse",
                "disconnectEvent"} -> 10
      [] q \in {"config", "validatorInfo"} -> 1

\* of the sends issued since the last receive (since the start, before the
\* first one), the first TableCap(tq) return nil before any receive, the first
\* one after a receive from the full queue, and every later one ErrChannelFull
C1_Counts ==
    tq # NoQueue =>
        /\ okSince = Min(sinceRecv, IF rounds = 0 THEN TableCap(tq) ELSE 1)
        /\ failsSince = sinceRecv - okSince
        /\ Len(chans[tq]) = IF rounds = 0 THEN okSince ELSE TableCap(tq) - 1 + okSince

\* a send that returns ErrChannelFull leaves every queue as it was; one that
\* returns nil appends its item to the queue it feeds and changes no other
C1_SendStep ==
    nSends' = nSends + 1 =>
        IF lastCall'.err = ErrChannelFull
        THEN chans' = chans
        ELSE chans' = [chans EXCEPT ![tq] = Append(@, lastCall'.item)]

\* C1: for every queue fed by a non-blocking send, with no receiver running
\* exactly `capacity` consecutive sends return nil, the next returns
\* ErrChannelFull and leaves the queue unchanged, and after exactly one receive
\* exactly one further send succeeds before ErrChannelFull is returned again.
\* (The beacon queue is fed only on a Bridge built with beaconBlock = true.)
C1_FillThenChannelFull == [][C1_Counts' /\ C1_SendStep]_vars

\* the caller filled a queue of 100, was refused, received once, sent once more
\* and was refused again
C1_Witness ==
    /\ tq = "blocksFromNode"
    /\ rounds = 1
    /\ okSince = 1
    /\ failsSince = 1
    /\ Len(chans[tq]) = 100

\* C2: no producer operation blocks: a producer that has called an operation
\* of the Bridge has returned from it, also when the queue is full and no
\* receiver runs.
C2_ProducersNeverBlock == \A p \in Producers : pc[p] # "blocked"

ItemsOf(s) == [i \in 1..Len(s) |-> s[i].item]

\* every receive so far, as <<queue, position>>
Receipts == {<<q, i>> : q \in Queues, i \in 1..MaxRecvs} \cap
            {x \in Queues \X (1..MaxRecvs) : x[2] <= Len(rcvd[x[1]])}

\* C3: within each queue the items received so far, followed by the items
\* still buffered, are exactly the items whose send returned nil, in the order
\* of those sends (FIFO, nothing lost, nothing received twice, nothing from
\* another queue); no item is received by two receives; an item whose send
\* returned ErrChannelFull is neither buffered nor received.
C3_FifoExactlyOnce ==
    /\ \A q \in Queues : ItemsOf(rcvd[q]) \o chans[q] = sentOk[q]
    /\ \A x, y \in Receipts :
          rcvd[x[1]][x[2]].item = rcvd[y[1]][y[2]].item => x = y
    /\ \A q \in Queues :
          /\ \A i \in 1..Len(chans[q]) : chans[q][i] \notin refused
          /\ \A i \in 1..Len(rcvd[q]) : rcvd[q][i].item \notin refused

\* two producers sent on one queue and two receivers took the two items, the
\* first sent first
C3_Witness ==
    \E q \in Queues :
        /\ Len(rcvd[q]) = 2
        /\ rcvd[q][1].by # rcvd[q][2].by
        /\ rcvd[q][1].item.by # rcvd[q][2].item.by
        /\ rcvd[q][1].item.id < rcvd[q][2].item.id

\* a refused send on the full validator queue, whose earlier item was received
C3_RefusedWitness ==
    /\ \E it \in refused : it.id = 2
    /\ Len(rcvd["validatorInfo"]) = 1

\* what SendBlockToNode is to do with a block of type ty on channels ch
C4_Routed(ch, ch2, bb, block, err) ==
    LET eth == "ethBlocksFromBDN"
        beacon == "beaconBlocksFromBDN"
        enq(q) == IF Len(ch[q]) < 100
                  THEN err = Nil /\ ch2 = [ch EXCEPT ![q] = Append(@, block)]
                  ELSE err = ErrChannelFull /\ ch2 = ch
    IN CASE block.Type = "Eth" -> enq(eth)
         [] block.Type \in {"BeaconPhase0", "BeaconAltair", "BeaconBellatrix",
                            "BeaconCapella"} ->
                IF bb THEN enq(beacon) ELSE err = Nil /\ ch2 = ch
         [] OTHER -> err \notin {Nil, ErrChannelFull} /\ ch2 = ch

\* C4: SendBlockToNode routes by block type: Eth to the eth queue only, beacon
\* to the beacon queue only and only when beaconBlock = true (else nil and no
\* queue changes), ErrChannelFull when the queue it routes to is full, and for
\* an unknown type another error and no queue changes.
C4_RoutesByType ==
    [][nSends' = nSends + 1 /\ lastCall'.op = "SendBlockToNode" =>
          C4_Routed(chans, chans', beaconBlock, lastCall'.item, lastCall'.err)]_vars

\* a beacon block sent on a Bridge without beacon source returned nil while the
\* eth queue was full, and the beacon queue is empty
C4_Witness ==
    /\ ~beaconBlock
    /\ lastCall.op = "SendBlockToNode"
    /\ lastCall.item.Type \in BeaconTypes
    /\ lastCall.err = Nil
    /\ Len(chans["ethBlocksFromBDN"]) = 100
    /\ chans["beaconBlocksFromBDN"] = <<>>


-----------------------------------------------------------------------------
(* Block processor: errors, constants and data *)

ErrAlreadyProcessed == "already processed"
ErrMissingShortIDs == "missing short IDs"
ErrUnknownBlockType == "unknown block type"
ErrNotCompitableBeaconBlock == "not compitable beacon block"
ErrMoreEmptyThanShortIDs ==
    "could not decompress bad block: more empty transactions than short IDs provided"
ErrNegativeBigInt == "rlp: cannot encode negative big.Int"
ErrDecode == "payload does not decode"
ErrSSZSize == "ssz: size above ssz-max"

\* markProcessed: 10*time.Minute
processedTTL == 10
\* the ssz-max tags of bxBlockSSZ.Block, bxBlockSSZ.Txs, bxCompressedTransaction.Transaction
sszMaxBlock == 367832
sszMaxTxs == 1048576
sszMaxTransaction == 1073741824

\* a *big.Int holding n
Big(n) == <<n>>

\* the transactions of the model: hash and content (the encoded bytes)
TxHashes == {"ta", "tb"}
TxContent(h) == IF h = "ta" THEN <<248, 1>> ELSE <<2, 184, 3>>
\* types.NewBxBlockTransaction(hash, content)
NewBxBlockTransaction(h, c) == [hash |-> h, content |-> c]
\* types.NewRawBxBlockTransaction(content): the hash is derived from the content
NewRawBxBlockTransaction(c) ==
    [hash |-> IF \E h \in TxHashes : TxContent(h) = c
              THEN CHOOSE h \in TxHashes : TxContent(h) = c
              ELSE "t?",
     content |-> c]

Range(f) == {f[x] : x \in DOMAIN f}

-----------------------------------------------------------------------------
(* HashHistory (services.NewHashHistory): a set of keys, each with the time *)
(* it expires                                                               *)

Exists(hh, key, t) == key \in DOMAIN hh /\ t < hh[key]
Add(hh, key, ttl, t) ==
    [k \in DOMAIN hh \cup {key} |-> IF k = key THEN t + ttl ELSE hh[k]]

\* markProcessed that adds nothing
markProcessedNot(hh, hash, t) == hh

\* ShouldProcess that holds for every hash
ShouldProcessAlways(hh, hash, t) == TRUE

ShouldProcess(hh, hash, t) == ~Exists(hh, hash, t)
markProcessed(hh, hash, t) == Add(hh, hash, processedTTL, t)

-----------------------------------------------------------------------------
(* TxStore: Get(hash) and GetTxByShortID(shortID)                           *)

\* TxStore.Get(hash): ok
Known(store, h) == h \in DOMAIN store
\* the hashes of the entries that hold short ID sid
Holders(store, sid) == {h \in DOMAIN store : sid \in Range(store[h].shortIDs)}
\* TxStore.GetTxByShortID(sid): err == nil, and the transaction
Resolvable(store, sid) == Holders(store, sid) # {}
GetTxByShortID(store, sid) == store[CHOOSE h \in Holders(store, sid) : TRUE]

-----------------------------------------------------------------------------
(* The codecs: rlp.EncodeToBytes / rlp.DecodeBytes of bxBlockRLP and         *)
(* MarshalSSZ / UnmarshalSSZ of bxBlockSSZ.  A payload is the sequence of    *)
(* encoded fields; the framing bytes between the fields are left out.        *)

\* the big-endian bytes of n >= 0, without leading zeros
RECURSIVE BigEndian(_)
BigEndian(n) == IF n = 0 THEN <<>> ELSE Append(BigEndian(n \div 256), n % 256)
RECURSIVE FromBigEndian(_)
FromBigEndian(bs) ==
    IF bs = <<>> THEN 0
    ELSE 256 * FromBigEndian(SubSeq(bs, 1, Len(bs) - 1)) + bs[Len(bs)]

\* rlp of a *big.Int: nil encodes as zero, a negative one is refused
Negative(x) == x # NilInt /\ x[1] < 0
EncodeBigInt(x) == IF x = NilInt THEN <<>> ELSE BigEndian(x[1])
DecodeBigInt(bs) == Big(FromBigEndian(bs))
\* rlp of a bool: 0x01 and the empty string
EncodeBool(b) == IF b THEN <<1>> ELSE <<>>
ValidBool(bs) == bs \in {<<>>, <<1>>}
DecodeBool(bs) == bs = <<1>>

\* rlp.EncodeToBytes(rlpBlock)
EncodeToBytes(rlpBlock) ==
    IF Negative(rlpBlock.TotalDifficulty) \/ Negative(rlpBlock.Number)
    THEN [err |-> ErrNegativeBigInt, bytes |-> [codec |-> "none"]]
    ELSE [err |-> Nil,
          bytes |-> [codec |-> "rlp",
                     Header |-> rlpBlock.Header,
                     Txs |-> [i \in 1..Len(rlpBlock.Txs) |->
                                 <<EncodeBool(rlpBlock.Txs[i].IsFullTransaction),
                                   rlpBlock.Txs[i].Transaction>>],
                     Trailer |-> rlpBlock.Trailer,
                     TotalDifficulty |-> EncodeBigInt(rlpBlock.TotalDifficulty),
                     Number |-> EncodeBigInt(rlpBlock.Number)]]

\* rlp.DecodeBytes(payload, &rlpBlock)
DecodeBytes(payload) ==
    IF payload.codec # "rlp" \/ \E i \in 1..Len(payload.Txs) : ~ValidBool(payload.Txs[i][1])
    THEN [err |-> ErrDecode, Header |-> NoBytes, Txs |-> <<>>, Trailer |-> NoBytes,
          TotalDifficulty |-> NilInt, Number |-> NilInt]
    ELSE [err |-> Nil,
          Header |-> payload.Header,
          Txs |-> [i \in 1..Len(payload.Txs) |->
                      [IsFullTransaction |-> DecodeBool(payload.Txs[i][1]),
                       Transaction |-> payload.Txs[i][2]]],
          Trailer |-> payload.Trailer,
          TotalDifficulty |-> DecodeBigInt(payload.TotalDifficulty),
          Number |-> DecodeBigInt(payload.Number)]

\* sszBlock.MarshalSSZ()
MarshalSSZ(sszBlock) ==
    IF \/ Len(sszBlock.Block) > sszMaxBlock
       \/ Len(sszBlock.Txs) > sszMaxTxs
       \/ \E i \in 1..Len(sszBlock.Txs) : Len(sszBlock.Txs[i].Transaction) > sszMaxTransaction
    THEN [err |-> ErrSSZSize, bytes |-> [codec |-> "none"]]
    ELSE [err |-> Nil,
          bytes |-> [codec |-> "ssz", Block |-> sszBlock.Block, Txs |-> sszBlock.Txs,
                     Number |-> sszBlock.Number]]

\* sszBlock.UnmarshalSSZ(payload)
UnmarshalSSZ(payload) ==
    IF payload.codec # "ssz"
    THEN [err |-> ErrDecode, Block |-> NoBytes, Txs |-> <<>>, Number |-> 0]
    ELSE [err |-> Nil, Block |-> payload.Block, Txs |-> payload.Txs,
          Number |-> payload.Number]

\* bxmessage.NewBlockBroadcast
NewBlockBroadcast(hash, beaconHash, blockType, encodedBlock, shortIDs, networkNum) ==
    [Hash |-> hash, BeaconHash |-> beaconHash, BlockType |-> blockType,
     Block |-> encodedBlock, ShortIDs |-> shortIDs, NetworkNum |-> networkNum]

\* types.NewRawBxBlock, without the size
NewRawBxBlock(hash, beaconHash, bType, header, txs, trailer, totalDifficulty, number) ==
    [Type |-> bType, Hash |-> hash, BeaconHash |-> beaconHash, Header |-> header,
     Txs |-> txs, Trailer |-> trailer, TotalDifficulty |-> totalDifficulty,
     Number |-> number]


-----------------------------------------------------------------------------
(* Block processor: compression *)

\* Compressible with AddTime not after maxTimestampForCompression
CompressibleNotStrict(tx, store, maxTimestampForCompression) ==
    /\ Known(store, tx.hash)
    /\ store[tx.hash].addTime <= maxTimestampForCompression
    /\ Len(store[tx.hash].shortIDs) > 0

\* a transaction of the block is replaced by a short ID: the store knows its
\* hash, the entry was added before maxTimestampForCompression and has a short ID
Compressible(tx, store, maxTimestampForCompression) ==
    /\ Known(store, tx.hash)
    /\ store[tx.hash].addTime < maxTimestampForCompression
    /\ Len(store[tx.hash].shortIDs) > 0

\* the short ID that stands for the transaction: shortIDs[0]
UsedShortID(tx, store) == store[tx.hash].shortIDs[1]

\* the entry that stands for a transaction replaced by a short ID
Placeholder(tx) == [IsFullTransaction |-> FALSE, Transaction |-> NoBytes]

\* a transaction kept in full, flagged as a placeholder
FullTransactionNotFull(tx) == [IsFullTransaction |-> FALSE, Transaction |-> tx.content]

\* the entry of a transaction kept in full
FullTransaction(tx) == [IsFullTransaction |-> TRUE, Transaction |-> tx.content]

\* the loop of newRLPBlockBroadcast and of newSSZBlockBroadcast
RECURSIVE CompressTxs(_, _, _)
CompressTxs(blockTxs, store, maxTimestampForCompression) ==
    IF blockTxs = <<>> THEN [txs |-> <<>>, usedShortIDs |-> <<>>]
    ELSE LET tx == Head(blockTxs)
             rest == CompressTxs(Tail(blockTxs), store, maxTimestampForCompression)
         IN IF Compressible(tx, store, maxTimestampForCompression)
            THEN [txs |-> <<Placeholder(tx)>> \o rest.txs,
                  usedShortIDs |-> <<UsedShortID(tx, store)>> \o rest.usedShortIDs]
            ELSE [txs |-> <<FullTransaction(tx)>> \o rest.txs,
                  usedShortIDs |-> rest.usedShortIDs]

newRLPBlockBroadcast(block, networkNum, minTxAge, store, t) ==
    LET c == CompressTxs(block.Txs, store, t - minTxAge)
        rlpBlock == [Header |-> block.Header, Txs |-> c.txs, Trailer |-> block.Trailer,
                     TotalDifficulty |-> block.TotalDifficulty, Number |-> block.Number]
        enc == EncodeToBytes(rlpBlock)
    IN IF enc.err # Nil
       THEN [bc |-> NoBroadcast, usedShortIDs |-> c.usedShortIDs, err |-> enc.err]
       ELSE [bc |-> NewBlockBroadcast(block.Hash, EmptyHash, block.Type, enc.bytes,
                                      c.usedShortIDs, networkNum),
             usedShortIDs |-> c.usedShortIDs, err |-> Nil]

newSSZBlockBroadcast(block, networkNum, minTxAge, store, t) ==
    LET c == CompressTxs(block.Txs, store, t - minTxAge)
        sszBlock == [Block |-> block.Trailer, Txs |-> c.txs, Number |-> block.Number[1]]
        enc == MarshalSSZ(sszBlock)
    IN IF enc.err # Nil
       THEN [bc |-> NoBroadcast, usedShortIDs |-> c.usedShortIDs, err |-> enc.err]
       ELSE [bc |-> NewBlockBroadcast(block.Hash, block.BeaconHash, block.Type, enc.bytes,
                                      c.usedShortIDs, networkNum),
             usedShortIDs |-> c.usedShortIDs, err |-> Nil]

\* BxBlockToBroadcast on processed set hh and store at time t: the broadcast,
\* the short IDs used, the error, and the processed set after the call
BxBlockToBroadcast(block, networkNum, minTxAge, hh, store, t) ==
    LET failed(e) == [bc |-> NoBroadcast, usedShortIDs |-> <<>>, err |-> e,
                      processed |-> hh]
    IN IF block.Type = BxBlockTypeEth /\ ~ShouldProcess(hh, block.Hash, t)
       THEN failed(ErrAlreadyProcessed)
       ELSE IF block.Type \in BeaconTypes /\ ~ShouldProcess(hh, block.BeaconHash, t)
       THEN failed(ErrAlreadyProcessed)
       ELSE IF block.Type = BxBlockTypeUnknown
       THEN failed(ErrUnknownBlockType)
       ELSE LET r == IF block.Type = BxBlockTypeEth
                     THEN newRLPBlockBroadcast(block, networkNum, minTxAge, store, t)
                     ELSE newSSZBlockBroadcast(block, networkNum, minTxAge, store, t)
            IN IF r.err # Nil
               THEN failed(r.err)
               ELSE [bc |-> r.bc, usedShortIDs |-> r.usedShortIDs, err |-> Nil,
                     processed |-> IF block.Type = BxBlockTypeEth
                                   THEN markProcessed(hh, block.Hash, t)
                                   ELSE markProcessed(hh, block.BeaconHash, t)]

-----------------------------------------------------------------------------
(* Block processor: expansion *)

\* the loop over broadcast.ShortIDs(): the transactions found, the short IDs missing
RECURSIVE Lookup(_, _)
Lookup(shortIDs, store) ==
    IF shortIDs = <<>> THEN [bxTransactions |-> <<>>, missingShortIDs |-> <<>>]
    ELSE LET sid == Head(shortIDs)
             rest == Lookup(Tail(shortIDs), store)
         IN IF Resolvable(store, sid)
            THEN [bxTransactions |-> <<GetTxByShortID(store, sid)>> \o rest.bxTransactions,
                  missingShortIDs |-> rest.missingShortIDs]
            ELSE [bxTransactions |-> rest.bxTransactions,
                  missingShortIDs |-> <<sid>> \o rest.missingShortIDs]

\* the placeholder without short ID that is passed over
MoreEmptyIgnored == [err |-> Nil, txs |-> <<>>]

\* return nil, fmt.Errorf("... more empty transactions than short IDs provided")
MoreEmpty == [err |-> ErrMoreEmptyThanShortIDs, txs |-> <<>>]

\* the loop over the decoded transactions: each placeholder takes the next of
\* bxTransactions; raw says whether the block keeps only the content (SSZ)
RECURSIVE Decompress(_, _, _)
Decompress(txs, bxTransactions, raw) ==
    IF txs = <<>> THEN [err |-> Nil, txs |-> <<>>]
    ELSE IF ~Head(txs).IsFullTransaction
    THEN IF bxTransactions = <<>>
         THEN MoreEmpty
         ELSE LET bx == Head(bxTransactions)
                  rest == Decompress(Tail(txs), Tail(bxTransactions), raw)
                  tx == IF raw THEN NewRawBxBlockTransaction(bx.content)
                        ELSE NewBxBlockTransaction(bx.hash, bx.content)
              IN IF rest.err # Nil THEN rest
                 ELSE [err |-> Nil, txs |-> <<tx>> \o rest.txs]
    ELSE LET rest == Decompress(Tail(txs), bxTransactions, raw)
         IN IF rest.err # Nil THEN rest
            ELSE [err |-> Nil,
                  txs |-> <<NewRawBxBlockTransaction(Head(txs).Transaction)>> \o rest.txs]

\* newBxBlockFromRLPBroadcast that hands the trailer over as the header
newBxBlockFromRLPBroadcastSwapped(broadcast, bxTransactions) ==
    LET rlpBlock == DecodeBytes(broadcast.Block)
        d == Decompress(rlpBlock.Txs, bxTransactions, FALSE)
    IN IF rlpBlock.err # Nil THEN [block |-> NoBlock, err |-> rlpBlock.err]
       ELSE IF d.err # Nil THEN [block |-> NoBlock, err |-> d.err]
       ELSE [block |-> NewRawBxBlock(broadcast.Hash, EmptyHash, broadcast.BlockType,
                                     rlpBlock.Trailer, d.txs, rlpBlock.Header,
                                     rlpBlock.TotalDifficulty, rlpBlock.Number),
             err |-> Nil]

newBxBlockFromRLPBroadcast(broadcast, bxTransactions) ==
    LET rlpBlock == DecodeBytes(broadcast.Block)
        d == Decompress(rlpBlock.Txs, bxTransactions, FALSE)
    IN IF rlpBlock.err # Nil THEN [block |-> NoBlock, err |-> rlpBlock.err]
       ELSE IF d.err # Nil THEN [block |-> NoBlock, err |-> d.err]
       ELSE [block |-> NewRawBxBlock(broadcast.Hash, EmptyHash, broadcast.BlockType,
                                     rlpBlock.Header, d.txs, rlpBlock.Trailer,
                                     rlpBlock.TotalDifficulty, rlpBlock.Number),
             err |-> Nil]

newBxBlockFromSSZBroadcast(broadcast, bxTransactions) ==
    LET sszBlock == UnmarshalSSZ(broadcast.Block)
        d == Decompress(sszBlock.Txs, bxTransactions, TRUE)
    IN IF sszBlock.err # Nil THEN [block |-> NoBlock, err |-> sszBlock.err]
       ELSE IF d.err # Nil THEN [block |-> NoBlock, err |-> d.err]
       ELSE [block |-> NewRawBxBlock(broadcast.Hash, broadcast.BeaconHash,
                                     broadcast.BlockType, NoBytes, d.txs, sszBlock.Block,
                                     NilInt, Big(sszBlock.Number)),
             err |-> Nil]

\* hash.Empty() that never holds
EmptyNever(hash) == FALSE

\* types.SHA256Hash.Empty()
Empty(hash) == hash = EmptyHash

\* the return of a processor that has marked the block before the lookup
MissingShortIDsMarked(hh, missingShortIDs) ==
    [block |-> NoBlock, missingShortIDs |-> missingShortIDs,
     err |-> ErrMissingShortIDs, processed |-> markProcessed(hh, "h1", 10)]

\* the return that gives only the first missing short ID
MissingShortIDsFirstOnly(hh, missingShortIDs) ==
    [block |-> NoBlock, missingShortIDs |-> <<Head(missingShortIDs)>>,
     err |-> ErrMissingShortIDs, processed |-> hh]

\* return nil, missingShortIDs, ErrMissingShortIDs
MissingShortIDs(hh, missingShortIDs) ==
    [block |-> NoBlock, missingShortIDs |-> missingShortIDs,
     err |-> ErrMissingShortIDs, processed |-> hh]

\* BxBlockFromBroadcast on processed set hh and store at time t: the block, the
\* short IDs missing, the error, and the processed set after the call
BxBlockFromBroadcast(broadcast, hh, store, t) ==
    LET failed(e) == [block |-> NoBlock, missingShortIDs |-> <<>>, err |-> e,
                      processed |-> hh]
        found == Lookup(broadcast.ShortIDs, store)
    IN IF broadcast.BlockType = BxBlockTypeEth /\ ~ShouldProcess(hh, broadcast.Hash, t)
       THEN failed(ErrAlreadyProcessed)
       ELSE IF broadcast.BlockType \in BeaconTypes /\ Empty(broadcast.BeaconHash)
       THEN failed(ErrNotCompitableBeaconBlock)
       ELSE IF broadcast.BlockType \in BeaconTypes
               /\ ~ShouldProcess(hh, broadcast.BeaconHash, t)
       THEN failed(ErrAlreadyProcessed)
       ELSE IF broadcast.BlockType = BxBlockTypeUnknown
       THEN failed(ErrUnknownBlockType)
       ELSE IF Len(found.missingShortIDs) > 0
       THEN MissingShortIDs(hh, found.missingShortIDs)
       ELSE IF broadcast.BlockType = BxBlockTypeEth
       THEN LET r == newBxBlockFromRLPBroadcast(broadcast, found.bxTransactions)
            IN [block |-> r.block, missingShortIDs |-> <<>>, err |-> r.err,
                processed |-> IF r.err = Nil THEN markProcessed(hh, broadcast.Hash, t)
                              ELSE hh]
       ELSE LET r == newBxBlockFromSSZBroadcast(broadcast, found.bxTransactions)
            IN [block |-> r.block, missingShortIDs |-> <<>>, err |-> r.err,
                processed |-> IF r.err = Nil
                              THEN markProcessed(markProcessed(hh, broadcast.Hash, t),
                                                 broadcast.BeaconHash, t)
                              ELSE hh]

-----------------------------------------------------------------------------
(* Block processor: the calls *)

\* the key BxBlockToBroadcast deduplicates a block on
DedupKey(block) == IF block.Type = BxBlockTypeEth THEN block.Hash ELSE block.BeaconHash

\* the hashes a successful BxBlockFromBroadcast stands for
MarkedHashes(bc) ==
    IF bc.BlockType = BxBlockTypeEth THEN {bc.Hash} ELSE {bc.Hash, bc.BeaconHash}

\* NewBlockProcessor(txStore): a processor that has processed nothing
NewBlockProcessor ==
    /\ processedBlocks # EmptyMap
    /\ processedBlocks' = EmptyMap
    /\ encodedAt' = EmptyMap
    /\ expandedAt' = EmptyMap
    /\ UNCHANGED <<txStore, now, blk, inflight, wire, bpLast, bpTurn, bridgeVars, fillVars, restVars>>

\* a caller compresses block
DoBxBlockToBroadcast(block, networkNum, minTxAge) ==
    LET r == BxBlockToBroadcast(block, networkNum, minTxAge, processedBlocks, txStore, now)
    IN /\ processedBlocks' = r.processed
       /\ bpLast' = [op |-> "BxBlockToBroadcast", block |-> block, bc |-> r.bc,
                     ids |-> r.usedShortIDs, err |-> r.err, minTxAge |-> minTxAge]
       /\ wire' = IF r.err = Nil
                  THEN [bc |-> r.bc, from |-> block, minTxAge |-> minTxAge,
                        fresh |-> processedBlocks = EmptyMap]
                  ELSE wire
       /\ encodedAt' = IF r.err = Nil
                       THEN [k \in DOMAIN encodedAt \cup {DedupKey(block)} |->
                                IF k = DedupKey(block) THEN now ELSE encodedAt[k]]
                       ELSE encodedAt
       /\ bpTurn' = 1 - bpTurn
       /\ UNCHANGED <<txStore, now, blk, inflight, expandedAt, bridgeVars, fillVars, restVars>>

\* a caller expands the broadcast that is on the wire
DoBxBlockFromBroadcast ==
    LET r == BxBlockFromBroadcast(wire.bc, processedBlocks, txStore, now)
    IN /\ wire.bc.BlockType # NoType
       /\ processedBlocks' = r.processed
       /\ bpLast' = [op |-> "BxBlockFromBroadcast", block |-> r.block, bc |-> wire.bc,
                     ids |-> r.missingShortIDs, err |-> r.err, minTxAge |-> 0]
       /\ expandedAt' = IF r.err = Nil
                        THEN [k \in DOMAIN expandedAt \cup MarkedHashes(wire.bc) |->
                                 IF k \in MarkedHashes(wire.bc) THEN now
                                 ELSE expandedAt[k]]
                        ELSE expandedAt
       /\ bpTurn' = 1 - bpTurn
       /\ UNCHANGED <<txStore, now, blk, inflight, wire, encodedAt, bridgeVars, fillVars, restVars>>

\* the store drops the entry of hash h
StoreRemove(h) ==
    /\ h \in DOMAIN txStore
    /\ txStore' = [k \in DOMAIN txStore \ {h} |-> txStore[k]]
    /\ UNCHANGED <<processedBlocks, now, blk, inflight, wire, bpLast, bpTurn, encodedAt,
                   expandedAt, bridgeVars, fillVars, restVars>>

\* five minutes pass
Tick ==
    /\ now + 5 <= MaxTime
    /\ now' = now + 5
    /\ UNCHANGED <<processedBlocks, txStore, blk, inflight, wire, bpLast, bpTurn, encodedAt,
                   expandedAt, bridgeVars, fillVars, restVars>>

-----------------------------------------------------------------------------
(* The blocks and the stores of the specifications *)

HdrA == <<249, 2>>
HdrB == <<249, 2, 17>>
TrA == <<192>>
TrB == <<193, 128>>

\* the sequences over S of length at most n
RECURSIVE SeqsUpTo(_, _)
SeqsUpTo(S, n) ==
    IF n = 0 THEN {<<>>}
    ELSE LET shorter == SeqsUpTo(S, n - 1)
         IN shorter \cup {Append(s, x) : s \in {t \in shorter : Len(t) = n - 1}, x \in S}

\* the transaction lists of a block
TxLists ==
    {[i \in 1..Len(hs) |-> NewBxBlockTransaction(hs[i], TxContent(hs[i]))] :
        hs \in SeqsUpTo(TxHashes, MaxTxs)}

EthBlocks ==
    {[Type |-> BxBlockTypeEth, Hash |-> "h1", BeaconHash |-> EmptyHash,
      Header |-> m[1], Txs |-> txs, Trailer |-> m[2], TotalDifficulty |-> m[3],
      Number |-> m[4]] :
        m \in {<<HdrA, TrA, Big(0), Big(0)>>, <<HdrB, TrB, Big(300), Big(7)>>,
               <<HdrA, TrB, Big(-1), Big(7)>>, <<HdrB, TrA, NilInt, Big(7)>>},
        txs \in TxLists}

BeaconBlocks ==
    {[Type |-> ty, Hash |-> "h1", BeaconHash |-> m[5],
      Header |-> m[1], Txs |-> txs, Trailer |-> m[2], TotalDifficulty |-> m[3],
      Number |-> m[4]] :
        ty \in {"BeaconPhase0", "BeaconCapella"},
        m \in {<<NoBytes, TrA, NilInt, Big(7), "b1">>,
               <<HdrA, TrB, Big(300), Big(0), "b1">>,
               <<NoBytes, TrA, NilInt, Big(7), EmptyHash>>},
        txs \in TxLists}

UnknownBlocks ==
    {[Type |-> BxBlockTypeUnknown, Hash |-> "h1", BeaconHash |-> EmptyHash,
      Header |-> HdrA, Txs |-> <<>>, Trailer |-> TrA, TotalDifficulty |-> Big(0),
      Number |-> Big(0)]}

\* the short IDs the store may hold for a transaction
Sid(h) == IF h = "ta" THEN 1 ELSE 2
AltSid(h) == Sid(h) + 10

\* the entries the store may hold for hash h
Entries(h) ==
    {[hash |-> h, content |-> TxContent(h), shortIDs |-> ids, addTime |-> 0] :
        ids \in {<<>>, <<Sid(h)>>, <<Sid(h), AltSid(h)>>}}
    \cup {[hash |-> h, content |-> TxContent(h), shortIDs |-> <<Sid(h)>>, addTime |-> 10],
          [hash |-> h, content |-> NoBytes, shortIDs |-> <<Sid(h)>>, addTime |-> 0]}

Stores ==
    UNION {[D -> UNION {Entries(h) : h \in TxHashes}] : D \in SUBSET TxHashes}

\* the stores: every entry is filed under its own hash
TxStores == {st \in Stores : \A h \in DOMAIN st : st[h].hash = h}

-----------------------------------------------------------------------------
(* SpecCodec: one block, one store; the block is compressed with several    *)
(* minTxAge, the broadcast is expanded by the same processor or by a new    *)
(* one, and the store may drop entries in between.                          *)

InitCodec ==
    /\ BridgeStarts(FALSE, EmptyChans)
    /\ FillIdle
    /\ processedBlocks = EmptyMap
    /\ txStore \in TxStores
    /\ now = 10
    /\ blk \in EthBlocks \cup BeaconBlocks \cup UnknownBlocks
    /\ wire = NoWire
    /\ bpLast = NoBpCall
    /\ bpTurn = 0
    /\ inflight = EmptyMap
    /\ encodedAt = EmptyMap
    /\ expandedAt = EmptyMap
    /\ RestIdle

NextCodec ==
    \/ \E minTxAge \in {0, 10} : DoBxBlockToBroadcast(blk, 5, minTxAge)
    \/ DoBxBlockFromBroadcast
    \/ NewBlockProcessor
    \/ \E h \in TxHashes : StoreRemove(h)

SpecCodec == InitCodec /\ [][NextCodec]_vars

-----------------------------------------------------------------------------
(* Block processor: the properties of compression and expansion (SpecCodec) *)

\* the step is a call of BxBlockToBroadcast, of BxBlockFromBroadcast
ToBroadcastStep == bpTurn' # bpTurn /\ bpLast'.op = "BxBlockToBroadcast"
FromBroadcastStep == bpTurn' # bpTurn /\ bpLast'.op = "BxBlockFromBroadcast"

\* the transaction entries of an encoded payload
PayloadTxs(payload) ==
    IF payload.codec = "rlp" THEN DecodeBytes(payload).Txs
    ELSE UnmarshalSSZ(payload).Txs

\* the positions 1..n that satisfy Test, in order
Positions(n, Test(_)) == SelectSeq([i \in 1..n |-> i], Test)

\* the positions of the placeholders of a payload, in order
PlaceholderPositions(payload) ==
    Positions(Len(PayloadTxs(payload)),
              LAMBDA i : ~PayloadTxs(payload)[i].IsFullTransaction)

\* the contents of the transactions of a block, in order
Contents(block) == [i \in 1..Len(block.Txs) |-> block.Txs[i].content]

\* the key BxBlockFromBroadcast deduplicates a broadcast on
BroadcastKey(bc) == IF bc.BlockType = BxBlockTypeEth THEN bc.Hash ELSE bc.BeaconHash

\* the round trip of the specification: the broadcast on the wire was made with
\* minTxAge = 0 by a processor whose processed set was empty, and the store
\* gives for every short ID used the content of the transaction it stands for
C5_SameContent ==
    \A k \in 1..Len(wire.bc.ShortIDs) :
        /\ Resolvable(txStore, wire.bc.ShortIDs[k])
        /\ k <= Len(PlaceholderPositions(wire.bc.Block))
        /\ GetTxByShortID(txStore, wire.bc.ShortIDs[k]).content
               = wire.from.Txs[PlaceholderPositions(wire.bc.Block)[k]].content
C5_RoundTripCase ==
    /\ FromBroadcastStep
    /\ wire.fresh
    /\ wire.minTxAge = 0
    /\ C5_SameContent

C7_Unresolvable(bc, store) == SelectSeq(bc.ShortIDs, LAMBDA sid : ~Resolvable(store, sid))

\* C7 as stated: for every broadcast not already processed, if a short ID of it
\* cannot be resolved, BxBlockFromBroadcast returns no block, MissingShortIDs
\* and exactly the unresolvable short IDs in the order of the broadcast.
C7_MissListAsStated ==
    [][/\ FromBroadcastStep
       /\ ~Exists(processedBlocks, BroadcastKey(wire.bc), now)
       /\ C7_Unresolvable(wire.bc, txStore) # <<>>
       =>
          /\ bpLast'.block = NoBlock
          /\ bpLast'.err = ErrMissingShortIDs
          /\ bpLast'.ids = C7_Unresolvable(wire.bc, txStore)]_vars

\* C7, amended: for every broadcast not already processed that is an Eth
\* broadcast or a beacon broadcast with a BeaconHash, if a short ID of it cannot
\* be resolved, BxBlockFromBroadcast returns no block, MissingShortIDs and
\* exactly the unresolvable short IDs in the order of the broadcast, with
\* multiplicity.
C7_MissList ==
    [][/\ FromBroadcastStep
       /\ ~Exists(processedBlocks, BroadcastKey(wire.bc), now)
       /\ \/ wire.bc.BlockType = BxBlockTypeEth
          \/ wire.bc.BlockType \in BeaconTypes /\ wire.bc.BeaconHash # EmptyHash
       /\ C7_Unresolvable(wire.bc, txStore) # <<>>
       =>
          /\ bpLast'.block = NoBlock
          /\ bpLast'.err = ErrMissingShortIDs
          /\ bpLast'.ids = C7_Unresolvable(wire.bc, txStore)]_vars

\* a broadcast with short IDs 2, 1 was expanded when the store resolved 2 only
C7_Witness ==
    /\ bpLast.op = "BxBlockFromBroadcast"
    /\ bpLast.err = ErrMissingShortIDs
    /\ bpLast.bc.ShortIDs = <<2, 1>>
    /\ bpLast.ids = <<1>>
    /\ Resolvable(txStore, 2)
    /\ ~Resolvable(txStore, 1)

\* a broadcast that uses short ID 1 twice was expanded when the store lacked it
C7_MultiplicityWitness ==
    /\ bpLast.op = "BxBlockFromBroadcast"
    /\ bpLast.err = ErrMissingShortIDs
    /\ bpLast.bc.ShortIDs = <<1, 1>>
    /\ bpLast.ids = <<1, 1>>

\* C8: a beacon broadcast with an empty BeaconHash makes BxBlockFromBroadcast
\* fail with NotCompatibleBeaconBlock, whatever the processed set and the store
\* hold (the check comes before the dedup check and the short-ID lookup); no
\* block and no miss list come back, the processed set is left as it was, and
\* ShouldProcess stays true for the hash and the beacon hash where it was.
C8_NotCompatible ==
    [][/\ FromBroadcastStep
       /\ wire.bc.BlockType \in BeaconTypes
       /\ wire.bc.BeaconHash = EmptyHash
       =>
          /\ bpLast'.err = ErrNotCompitableBeaconBlock
          /\ bpLast'.block = NoBlock
          /\ bpLast'.ids = <<>>
          /\ processedBlocks' = processedBlocks
          /\ \A h \in {wire.bc.Hash, wire.bc.BeaconHash} :
                ShouldProcess(processedBlocks, h, now)
                    => ShouldProcess(processedBlocks', h, now')]_vars

\* a beacon broadcast with an empty BeaconHash was refused although its key is
\* in the processed set and one of its short IDs cannot be resolved
C8_Witness ==
    /\ bpLast.op = "BxBlockFromBroadcast"
    /\ bpLast.bc.BlockType \in BeaconTypes
    /\ bpLast.bc.BeaconHash = EmptyHash
    /\ bpLast.err = ErrNotCompitableBeaconBlock
    /\ Exists(processedBlocks, EmptyHash, now)
    /\ ShouldProcess(processedBlocks, bpLast.bc.Hash, now)
    /\ C7_Unresolvable(bpLast.bc, txStore) # <<>>

\* the rule of compression for transaction tx of a block compressed at time t
C9_Replaced(tx, store, t, minTxAge) ==
    /\ tx.hash \in DOMAIN store
    /\ store[tx.hash].addTime < t - minTxAge
    /\ Len(store[tx.hash].shortIDs) >= 1

\* the payload entries and the short IDs the rule gives for a block
C9_Entries(block, store, t, minTxAge) ==
    [i \in 1..Len(block.Txs) |->
        IF C9_Replaced(block.Txs[i], store, t, minTxAge)
        THEN [IsFullTransaction |-> FALSE, Transaction |-> <<>>]
        ELSE [IsFullTransaction |-> TRUE, Transaction |-> block.Txs[i].content]]
C9_ShortIDs(block, store, t, minTxAge) ==
    LET pos == Positions(Len(block.Txs),
                         LAMBDA i : C9_Replaced(block.Txs[i], store, t, minTxAge))
    IN [k \in 1..Len(pos) |-> store[block.Txs[pos[k]].hash].shortIDs[1]]

\* C9: in the broadcast BxBlockToBroadcast makes, each transaction of the block,
\* in order, is a placeholder (not full, no bytes) with the first short ID of its
\* store entry appended to the short IDs used, if and only if the store knows its
\* hash, the entry was added strictly before now - minTxAge and the entry has a
\* short ID; otherwise it is the full bytes and no short ID is appended.
C9_CompressionRule ==
    [][ToBroadcastStep /\ bpLast'.err = Nil =>
          /\ PayloadTxs(bpLast'.bc.Block)
                = C9_Entries(bpLast'.block, txStore, now, bpLast'.minTxAge)
          /\ bpLast'.ids
                = C9_ShortIDs(bpLast'.block, txStore, now, bpLast'.minTxAge)]_vars

\* a block ta, tb was compressed with minTxAge = 0: ta, held with two short IDs,
\* was replaced by the first; tb, added exactly at now - minTxAge, was kept
C9_Witness ==
    /\ bpLast.op = "BxBlockToBroadcast"
    /\ bpLast.err = Nil
    /\ bpLast.minTxAge = 0
    /\ Len(bpLast.block.Txs) = 2
    /\ bpLast.block.Txs[1].hash = "ta"
    /\ bpLast.block.Txs[2].hash = "tb"
    /\ DOMAIN txStore = {"ta", "tb"}
    /\ txStore["ta"].shortIDs = <<1, 11>>
    /\ txStore["ta"].addTime < now
    /\ txStore["tb"].shortIDs = <<2>>
    /\ txStore["tb"].addTime = now
    /\ bpLast.ids = <<1>>

\* C10: every broadcast BxBlockToBroadcast returns has as many placeholders in
\* its payload as short IDs, its short IDs are the usedShortIDs returned, and
\* the k-th short ID is one of the store entry of the transaction at the k-th
\* placeholder.
C10_WireInvariant ==
    [][ToBroadcastStep /\ bpLast'.err = Nil =>
          LET bc == bpLast'.bc
              pos == PlaceholderPositions(bpLast'.bc.Block)
          IN /\ Len(pos) = Len(bc.ShortIDs)
             /\ bc.ShortIDs = bpLast'.ids
             /\ Len(PayloadTxs(bc.Block)) = Len(bpLast'.block.Txs)
             /\ \A k \in 1..Len(pos) :
                   /\ bpLast'.block.Txs[pos[k]].hash \in DOMAIN txStore
                   /\ bc.ShortIDs[k] \in
                         Range(txStore[bpLast'.block.Txs[pos[k]].hash].shortIDs)]_vars

\* a beacon block of a full transaction and a replaced one was compressed
C10_Witness ==
    /\ bpLast.op = "BxBlockToBroadcast"
    /\ bpLast.err = Nil
    /\ bpLast.bc.BlockType \in BeaconTypes
    /\ Len(PayloadTxs(bpLast.bc.Block)) = 2
    /\ PayloadTxs(bpLast.bc.Block)[1].IsFullTransaction
    /\ ~PayloadTxs(bpLast.bc.Block)[2].IsFullTransaction
    /\ bpLast.bc.ShortIDs = <<2>>
    /\ bpLast.ids = <<2>>

-----------------------------------------------------------------------------
(* SpecDedup: one processor and a running clock; blocks that share their    *)
(* dedup keys are compressed, and the broadcasts are expanded.              *)

\* the transaction lists of the blocks of SpecDedup
DedupTxLists == {<<>>, <<NewBxBlockTransaction("ta", TxContent("ta"))>>}

DedupBlocks ==
    {[Type |-> BxBlockTypeEth, Hash |-> h, BeaconHash |-> EmptyHash,
      Header |-> HdrA, Txs |-> txs, Trailer |-> TrA, TotalDifficulty |-> Big(300),
      Number |-> Big(7)] :
        h \in {"h1", "b1"}, txs \in DedupTxLists}
    \cup
    {[Type |-> "BeaconPhase0", Hash |-> "h1", BeaconHash |-> b,
      Header |-> NoBytes, Txs |-> txs, Trailer |-> TrB, TotalDifficulty |-> NilInt,
      Number |-> Big(7)] :
        b \in {"b1", EmptyHash}, txs \in DedupTxLists}
    \cup
    {[Type |-> "BeaconCapella", Hash |-> "h2", BeaconHash |-> "b1",
      Header |-> NoBytes, Txs |-> <<>>, Trailer |-> TrA, TotalDifficulty |-> NilInt,
      Number |-> Big(0)]}
    \cup UnknownBlocks

InitDedup ==
    /\ BridgeStarts(FALSE, EmptyChans)
    /\ FillIdle
    /\ processedBlocks = EmptyMap
    /\ txStore \in {st \in TxStores : DOMAIN st = {"ta"} /\ st["ta"].addTime = 0
                                      /\ st["ta"].content = TxContent("ta")}
    /\ now = 0
    /\ blk = NoBlock
    /\ wire = NoWire
    /\ bpLast = NoBpCall
    /\ bpTurn = 0
    /\ inflight = EmptyMap
    /\ encodedAt = EmptyMap
    /\ expandedAt = EmptyMap
    /\ RestIdle

NextDedup ==
    \/ \E block \in DedupBlocks : DoBxBlockToBroadcast(block, 5, 0)
    \/ DoBxBlockFromBroadcast
    \/ StoreRemove("ta")
    \/ Tick

SpecDedup == InitDedup /\ [][NextDedup]_vars

\* C6: once BxBlockToBroadcast has succeeded for a block, every later call of
\* BxBlockToBroadcast for an Eth or beacon block with the same dedup key, made
\* less than 10 minutes after that success, fails with AlreadyProcessed and
\* returns no broadcast and no short IDs.
C6_CompressionDedup ==
    [][/\ ToBroadcastStep
       /\ bpLast'.block.Type \in {BxBlockTypeEth} \cup BeaconTypes
       /\ DedupKey(bpLast'.block) \in DOMAIN encodedAt
       /\ now < encodedAt[DedupKey(bpLast'.block)] + 10
       =>
          /\ bpLast'.err = ErrAlreadyProcessed
          /\ bpLast'.bc = NoBroadcast
          /\ bpLast'.ids = <<>>]_vars

\* five minutes after a block was compressed, another block of another type
\* with the same dedup key was refused
C6_Witness ==
    /\ bpLast.op = "BxBlockToBroadcast"
    /\ bpLast.err = ErrAlreadyProcessed
    /\ bpLast.bc = NoBroadcast
    /\ wire.from.Type \in BeaconTypes
    /\ bpLast.block.Type = BxBlockTypeEth
    /\ DedupKey(bpLast.block) = DedupKey(wire.from)
    /\ DedupKey(bpLast.block) \in DOMAIN encodedAt
    /\ encodedAt[DedupKey(bpLast.block)] = 0
    /\ now = 5

\* a block was compressed again once the 10 minutes of its key had passed
C6_ExpiryWitness ==
    /\ bpLast.op = "BxBlockToBroadcast"
    /\ bpLast.err = Nil
    /\ DedupKey(bpLast.block) \in DOMAIN processedBlocks
    /\ encodedAt[DedupKey(bpLast.block)] = 10
    /\ processedBlocks[DedupKey(bpLast.block)] = 20

-----------------------------------------------------------------------------
(* SpecExpand: a broadcast comes in from a peer, with any payload entries   *)
(* and any short IDs; the processor expands it against any store.           *)

\* the entries a payload may hold
PayloadEntries ==
    {[IsFullTransaction |-> FALSE, Transaction |-> NoBytes]}
    \cup {[IsFullTransaction |-> TRUE, Transaction |-> TxContent(h)] : h \in TxHashes}

\* the broadcasts of a peer: Eth with an RLP payload, beacon with an SSZ payload
PeerBroadcasts ==
    {NewBlockBroadcast("h1", EmptyHash, BxBlockTypeEth,
                       EncodeToBytes([Header |-> HdrA, Txs |-> txs, Trailer |-> TrA,
                                      TotalDifficulty |-> Big(300),
                                      Number |-> Big(7)]).bytes,
                       sids, 5) :
        txs \in SeqsUpTo(PayloadEntries, MaxTxs), sids \in SeqsUpTo({1, 2}, MaxTxs)}
    \cup
    {NewBlockBroadcast("h1", "b1", ty,
                       MarshalSSZ([Block |-> TrB, Txs |-> txs, Number |-> 7]).bytes,
                       sids, 5) :
        ty \in {"BeaconPhase0", "BeaconCapella"},
        txs \in SeqsUpTo(PayloadEntries, MaxTxs), sids \in SeqsUpTo({1, 2}, MaxTxs)}

InitExpand ==
    /\ BridgeStarts(FALSE, EmptyChans)
    /\ FillIdle
    /\ processedBlocks = EmptyMap
    /\ txStore \in {st \in TxStores : \A h \in DOMAIN st : st[h].addTime = 0}
    /\ now = 10
    /\ blk = NoBlock
    /\ wire \in {[bc |-> bc, from |-> NoBlock, minTxAge |-> 0, fresh |-> FALSE] :
                    bc \in PeerBroadcasts}
    /\ bpLast = NoBpCall
    /\ bpTurn = 0
    /\ inflight = EmptyMap
    /\ encodedAt = EmptyMap
    /\ expandedAt = EmptyMap
    /\ RestIdle

NextExpand ==
    \/ DoBxBlockFromBroadcast
    \/ \E h \in TxHashes : StoreRemove(h)

SpecExpand == InitExpand /\ [][NextExpand]_vars

\* the content the i-th entry of a payload stands for: its own bytes when it is
\* full, else the content of the transaction of the k-th short ID, when it is
\* the k-th placeholder
C11_Content(bc, store, i) ==
    LET entries == PayloadTxs(bc.Block)
        k == Cardinality({j \in 1..i : ~entries[j].IsFullTransaction})
    IN IF entries[i].IsFullTransaction THEN entries[i].Transaction
       ELSE GetTxByShortID(store, bc.ShortIDs[k]).content

\* C11: when BxBlockFromBroadcast succeeds, the block has one transaction per
\* payload entry, a full entry keeps its bytes and the k-th placeholder has the
\* content of the transaction resolved from the k-th short ID; when the payload
\* has more placeholders than the broadcast has short IDs, the call fails with
\* an error, returns no block and leaves the processed set as it was.
C11_PlaceholdersInOrder ==
    [][FromBroadcastStep =>
          /\ bpLast'.err = Nil =>
                /\ Len(bpLast'.block.Txs) = Len(PayloadTxs(wire.bc.Block))
                /\ \A i \in 1..Len(bpLast'.block.Txs) :
                      bpLast'.block.Txs[i].content = C11_Content(wire.bc, txStore, i)
          /\ Len(PlaceholderPositions(wire.bc.Block)) > Len(wire.bc.ShortIDs) =>
                /\ bpLast'.err # Nil
                /\ bpLast'.block = NoBlock
                /\ processedBlocks' = processedBlocks]_vars

\* a payload of two placeholders came with short IDs 2, 1 and was expanded to
\* the contents of tb, ta
C11_Witness ==
    /\ bpLast.op = "BxBlockFromBroadcast"
    /\ bpLast.err = Nil
    /\ Len(PlaceholderPositions(bpLast.bc.Block)) = 2
    /\ bpLast.bc.ShortIDs = <<2, 1>>
    /\ Contents(bpLast.block) = <<TxContent("tb"), TxContent("ta")>>

\* a payload of two placeholders came with one short ID, which the store
\* resolved, and was refused for having more placeholders than short IDs
C11_MoreEmptyWitness ==
    /\ bpLast.op = "BxBlockFromBroadcast"
    /\ bpLast.err = ErrMoreEmptyThanShortIDs
    /\ bpLast.block = NoBlock
    /\ Len(PlaceholderPositions(bpLast.bc.Block)) = 2
    /\ bpLast.bc.ShortIDs = <<1>>
    /\ processedBlocks = EmptyMap

-----------------------------------------------------------------------------
(* The processed set after an expansion (SpecDedup) *)

\* the hashes asked about
C12_Hashes == {"h1", "h2", "b1", EmptyHash, "hx"}

\* h is in the processed set: a call that marks it succeeded less than 10
\* minutes ago
C12_InProcessedSet(h) ==
    \/ h \in DOMAIN encodedAt /\ now < encodedAt[h] + 10
    \/ h \in DOMAIN expandedAt /\ now < expandedAt[h] + 10

\* C12: after a successful BxBlockFromBroadcast ShouldProcess is false for the
\* hash of an Eth broadcast, and for both the hash and the beacon hash of a
\* beacon broadcast; and at any time ShouldProcess(h) is true exactly for the
\* hashes h that are not in the processed set.
C12_MarkedAfterExpansion ==
    [][/\ FromBroadcastStep /\ bpLast'.err = Nil =>
             /\ ~ShouldProcess(processedBlocks', wire.bc.Hash, now')
             /\ wire.bc.BlockType \in BeaconTypes =>
                   ~ShouldProcess(processedBlocks', wire.bc.BeaconHash, now')
       /\ \A h \in C12_Hashes :
             ShouldProcess(processedBlocks', h, now') <=> ~C12_InProcessedSet(h)']_vars

\* a beacon broadcast was expanded just now: its hash, which no compression
\* marks, and its beacon hash are both refused
C12_Witness ==
    /\ bpLast.op = "BxBlockFromBroadcast"
    /\ bpLast.err = Nil
    /\ bpLast.bc.BlockType \in BeaconTypes
    /\ bpLast.bc.Hash \notin DOMAIN encodedAt
    /\ bpLast.bc.Hash \in DOMAIN expandedAt
    /\ expandedAt[bpLast.bc.Hash] = now
    /\ ~ShouldProcess(processedBlocks, bpLast.bc.Hash, now)
    /\ ~ShouldProcess(processedBlocks, bpLast.bc.BeaconHash, now)
    /\ ShouldProcess(processedBlocks, "hx", now)

-----------------------------------------------------------------------------
(* calcBeaconTransactionLength (SpecCalc) *)

\* (*big.Int).Uint64(): the low 64 bits of the absolute value; the values here
\* are differences of two bytes
Uint64(x) == IF x < 0 THEN 0 - x ELSE x

calcBeaconTransactionLength(raw) ==
    IF Len(raw) = 0 THEN 0
    ELSE LET len4 == Len(raw) + 4
         IN IF raw[1] < 192
            THEN IF raw[1] = 128 THEN len4 - 2
                 ELSE IF raw[1] > 128 THEN len4 - (Uint64(raw[1] - 183) + 1)
                 ELSE len4
            ELSE len4

\* the byte strings of n bytes with first byte b
RawTxOf(b, n) == [i \in 1..n |-> IF i = 1 THEN b ELSE 0]

InitCalc ==
    /\ BridgeStarts(FALSE, EmptyChans)
    /\ FillIdle
    /\ BpIdle
    /\ HandlerIdle
    /\ SubmitIdle
    /\ UpgradeIdle
    /\ rawTx \in {NoBytes} \cup {RawTxOf(b, n) : b \in 0..255, n \in 1..MaxRawLen}
    /\ txLen = NoLen

\* a caller computes the length of rawTx
DoCalcBeaconTransactionLength ==
    /\ txLen = NoLen
    /\ txLen' = <<calcBeaconTransactionLength(rawTx)>>
    /\ UNCHANGED <<rawTx, bridgeVars, fillVars, bpVars, chVars, subVars, wsVars>>

NextCalc == DoCalcBeaconTransactionLength

SpecCalc == InitCalc /\ [][NextCalc]_vars

\* the length the table of the specification gives
C13_Table(raw) ==
    IF Len(raw) = 0 THEN 0
    ELSE Len(raw) + 4
         - (IF raw[1] = 128 THEN 2
            ELSE IF raw[1] > 128 /\ raw[1] < 192 THEN raw[1] - 183 + 1
            ELSE 0)

\* C13: calcBeaconTransactionLength gives 0 for the empty input and else len+4,
\* less 2 when the first byte is 0x80, less (firstByte - 0xB7 + 1) when the
\* first byte is strictly between 0x80 and 0xC0, and len+4 for every other
\* first byte.
C13_MatchesTable == txLen # NoLen => txLen[1] = C13_Table(rawTx)

\* what holds of the code: the table, with the distance of the first byte to
\* 0xB7 in place of the difference
C13_MatchesTableAbs ==
    txLen # NoLen =>
        txLen[1] = IF Len(rawTx) > 0 /\ rawTx[1] > 128 /\ rawTx[1] < 183
                   THEN Len(rawTx) + 4 - (183 - rawTx[1] + 1)
                   ELSE C13_Table(rawTx)

-----------------------------------------------------------------------------
(* Client handler: feeds, include fields and the JSON-RPC messages *)

NewTxsFeed == "newTxs"
PendingTxsFeed == "pendingTxs"
BDNBlocksFeed == "bdnBlocks"
NewBlocksFeed == "newBlocks"
OnBlockFeed == "onBlock"
TxReceiptsFeed == "txReceipts"
NewBeaconBlocksFeed == "newBeaconBlocks"
BDNBeaconBlocksFeed == "bdnBeaconBlocks"

availableFeeds ==
    <<NewTxsFeed, NewBlocksFeed, BDNBlocksFeed, PendingTxsFeed, OnBlockFeed,
      TxReceiptsFeed, NewBeaconBlocksFeed, BDNBeaconBlocksFeed>>

txContentFields ==
    <<"tx_contents.nonce", "tx_contents.tx_hash", "tx_contents.gas_price",
      "tx_contents.gas", "tx_contents.to", "tx_contents.value",
      "tx_contents.input", "tx_contents.v", "tx_contents.r", "tx_contents.s",
      "tx_contents.from", "tx_contents.type", "tx_contents.access_list",
      "tx_contents.chain_id", "tx_contents.max_priority_fee_per_gas",
      "tx_contents.max_fee_per_gas">>

validTxParams ==
    txContentFields \o <<"tx_contents", "tx_hash", "local_region", "time", "raw_tx">>

validBlockParams ==
    txContentFields \o <<"hash", "header", "transactions", "uncles",
                         "future_validator_info">>

validOnBlockParams == <<"name", "response", "block_height", "tag">>

validBeaconBlockParams == <<"hash", "header", "slot", "body">>

validTxReceiptParams ==
    <<"block_hash", "block_number", "contract_address", "cumulative_gas_used",
      "effective_gas_price", "from", "gas_used", "logs", "logs_bloom", "status",
      "to", "transaction_hash", "transaction_index", "type">>

validParams(feed) ==
    CASE feed \in {NewTxsFeed, PendingTxsFeed} -> validTxParams
      [] feed \in {BDNBlocksFeed, NewBlocksFeed} -> validBlockParams
      [] feed = OnBlockFeed -> validOnBlockParams
      [] feed = TxReceiptsFeed -> validTxReceiptParams
      [] feed \in {NewBeaconBlocksFeed, BDNBeaconBlocksFeed} -> validBeaconBlockParams
      [] OTHER -> <<>>

defaultTxParams == txContentFields \o <<"tx_hash", "local_region", "time">>

\* utils.Exists and types.Exists: elem is one of the entries of list
utilsExists(elem, list) == \E i \in 1..Len(list) : list[i] = elem

\* the elements of a list
Elems(list) == {list[i] : i \in 1..Len(list)}

InvalidParams == "InvalidParams"
InternalError == "InternalError"
InvalidRequest == "InvalidRequest"

\* a uint64 of the model: the value is n when wraps = 0 and 2^64 + n, with
\* n < 0, when wraps = 1
U64(n) == [wraps |-> 0, n |-> n]

\* x + uint64(offset) in uint64 arithmetic, for a uint64 x below 2^63 and an
\* int offset that is not positive: uint64(offset) is 2^64 + offset, and the
\* sum is taken modulo 2^64
AddOffset(x, offset) ==
    IF x + offset >= 0 THEN U64(x + offset)
    ELSE [wraps |-> 1, n |-> x + offset]

\* the messages a handler writes to the connection: the result of a request,
\* the error of a request, a notify of a subscription; tag is the tag of an
\* OnBlockNotification
Result(text) ==
    [kind |-> "result", code |-> Nil, text |-> text, name |-> "", ids |-> <<>>,
     fields |-> <<>>, tag |-> U64(0)]
ErrorMsg(code, text) ==
    [kind |-> "error", code |-> code, text |-> text, name |-> "", ids |-> <<>>,
     fields |-> <<>>, tag |-> U64(0)]
Notify(name, text, ids, fields) ==
    [kind |-> "notify", code |-> Nil, text |-> text, name |-> name, ids |-> ids,
     fields |-> fields, tag |-> U64(0)]

\* conn.Reply, conn.ReplyWithError, conn.Notify: nothing is written to a
\* connection the client has left, and the call returns an error
Write(out, up, msg) == IF up THEN Append(out, msg) ELSE out

\* SendErrorMsg: the error of conn.ReplyWithError is logged and dropped
SendErrorMsg(out, up, code, text) == Write(out, up, ErrorMsg(code, text))

-----------------------------------------------------------------------------
(* Client handler: createClientReq *)

\* ParseFilter and EvaluateFilters on the filters of the requests of the
\* model: the arguments of the expression, or the error
ParseFilter(filters) ==
    CASE filters = "{gas} > 21000" -> [err |-> Nil, args |-> <<"gas">>]
      [] filters = "(from)" -> [err |-> "filter is empty", args |-> <<>>]
      [] OTHER -> [err |-> "parse error", args |-> <<>>]

\* the feed service of the account that covers the feed
FeedStreaming(feed, account) ==
    CASE feed = NewTxsFeed -> account.NewTransactionStreaming
      [] feed = PendingTxsFeed -> account.PendingTransactionStreaming
      [] feed \in {BDNBlocksFeed, NewBlocksFeed, NewBeaconBlocksFeed,
                   BDNBeaconBlocksFeed} -> account.NewBlockStreaming
      [] feed = OnBlockFeed -> account.OnBlockFeed
      [] feed = TxReceiptsFeed -> account.TransactionReceiptFeed
      [] OTHER -> NoService

validateFeed(feedName, feedStreaming, includes, filters) ==
    IF feedStreaming.expired THEN "feed is not allowed or date has been expired"
    ELSE IF feedStreaming.AllowFiltering /\ "all" \in feedStreaming.AvailableFields
    THEN Nil
    ELSE IF \E i \in 1..Len(includes) : includes[i] \notin feedStreaming.AvailableFields
    THEN "including is not allowed"
    ELSE IF ~feedStreaming.AllowFiltering /\ Len(filters) > 0
    THEN "filtering is not allowed"
    ELSE Nil

\* the feeds a connection of another account than the gateway's may not have
CloudRefusedOnBlockOnly(feed, caller, node) ==
    caller # node /\ feed = OnBlockFeed
CloudRefused(feed, caller, node) ==
    caller # node /\ (feed = OnBlockFeed \/ feed = TxReceiptsFeed)

\* the requested fields when Include is empty
DefaultFields(feed) ==
    CASE feed \in {BDNBlocksFeed, NewBlocksFeed, BDNBeaconBlocksFeed,
                   NewBeaconBlocksFeed} -> validBlockParams
      [] feed = NewTxsFeed -> defaultTxParams
      [] feed = PendingTxsFeed -> defaultTxParams
      [] feed = OnBlockFeed -> validParams(OnBlockFeed)
      [] feed = TxReceiptsFeed -> validParams(TxReceiptsFeed)
      [] OTHER -> <<>>

\* the loop over Include: every param is appended, "tx_contents" after the
\* fields it stands for
RECURSIVE RequestedFields(_, _)
RequestedFields(include, fields) ==
    IF include = <<>> THEN fields
    ELSE RequestedFields(Tail(include),
            (IF Head(include) = "tx_contents" THEN fields \o txContentFields
             ELSE fields) \o <<Head(include)>>)

\* nodeWSManager.ValidRPCCallMethods, and strconv.Atoi on the tags of the
\* requests of the model
ValidRPCCallMethods == {"eth_call", "eth_getBalance", "eth_blockNumber"}
Atoi(value) ==
    CASE value = "0" -> [err |-> Nil, n |-> 0]
      [] value = "-1" -> [err |-> Nil, n |-> 0 - 1]
      [] value = "-2" -> [err |-> Nil, n |-> 0 - 2]
      [] value = "1" -> [err |-> Nil, n |-> 1]
      [] OTHER -> [err |-> "invalid syntax", n |-> 0]
Itoa(idx) == CASE idx = 0 -> "0" [] idx = 1 -> "1" [] idx = 2 -> "2" [] OTHER -> "n"

newCall(name) ==
    [commandMethod |-> "", blockOffset |-> 0, callName |-> name, active |-> TRUE]

\* one entry of Call-Params: the call it gives, or the error.  An entry of the
\* model has the keys method and tag, name unless it is "", and payload fields
\* that are "ok", not known ("unknown") or not enough for the method
\* ("missing").
CallOf(callParams, idx, calls) ==
    LET tag == Atoi(callParams.tag)
    IN  IF callParams.method \notin ValidRPCCallMethods
        THEN [err |-> "invalid method", call |-> newCall("")]
        ELSE IF callParams.tag # "latest" /\ (tag.err # Nil \/ tag.n > 0)
        THEN [err |-> "invalid value for tag", call |-> newCall("")]
        ELSE IF callParams.name # "" /\ callParams.name \in DOMAIN calls
        THEN [err |-> "unique name must be provided for each call",
              call |-> newCall("")]
        ELSE IF callParams.payload = "unknown"
        THEN [err |-> "invalid payload field", call |-> newCall("")]
        ELSE IF callParams.payload = "missing"
        THEN [err |-> "missing required field", call |-> newCall("")]
        ELSE [err |-> Nil,
              call |-> [commandMethod |-> callParams.method,
                        blockOffset |-> IF callParams.tag = "latest" THEN 0 ELSE tag.n,
                        callName |-> IF callParams.name # "" THEN callParams.name
                                     ELSE Itoa(idx),
                        active |-> TRUE]]

\* the loop over Call-Params: calls[call.callName] = call
RECURSIVE CallsOf(_, _, _)
CallsOf(params, idx, calls) ==
    IF idx >= Len(params) THEN [err |-> Nil, calls |-> calls]
    ELSE LET c == CallOf(params[idx + 1], idx, calls)
         IN  IF c.err # Nil THEN [err |-> c.err, calls |-> EmptyMap]
             ELSE CallsOf(params, idx + 1,
                          [n \in DOMAIN calls \cup {c.call.callName} |->
                              IF n = c.call.callName THEN c.call ELSE calls[n]])

ClientReqError(err) ==
    [err |-> err, includes |-> <<>>, feed |-> "", expr |-> <<>>, calls |-> EmptyMap,
     MultiTxs |-> FALSE]

\* createClientReq: the client request, or the error.  req.params is "nil"
\* for a request without params, "short" for fewer than two, else "ok"; expr is
\* the list of the arguments of the filter expression, empty for expr = nil.
createClientReq(req, account, fm) ==
    IF req.params = "nil" THEN ClientReqError("params is a required field")
    ELSE IF req.params = "short"
    THEN ClientReqError("number of params must be at least length 2")
    ELSE IF ~utilsExists(req.feed, availableFeeds)
    THEN ClientReqError("got unsupported feed name")
    ELSE IF CloudRefused(req.feed, account.AccountID, fm.AccountID)
    THEN ClientReqError("feed is not available via cloud services")
    ELSE IF ~req.hasInclude THEN ClientReqError("got unsupported params")
    ELSE IF \E i \in 1..Len(req.Include) :
                ~utilsExists(req.Include[i], validParams(req.feed))
    THEN ClientReqError("got unsupported param")
    ELSE
    LET requestedFields ==
            RequestedFields(req.Include,
                IF Len(req.Include) = 0 THEN DefaultFields(req.feed) ELSE <<>>)
        parsed == IF req.Filters # "" THEN ParseFilter(req.Filters)
                  ELSE [err |-> Nil, args |-> <<>>]
        feedErr == validateFeed(req.feed, FeedStreaming(req.feed, account),
                                requestedFields, parsed.args)
        calls == IF req.feed = OnBlockFeed THEN CallsOf(req.CallParams, 0, EmptyMap)
                 ELSE [err |-> Nil, calls |-> EmptyMap]
    IN  IF parsed.err # Nil THEN ClientReqError(parsed.err)
        ELSE IF feedErr # Nil THEN ClientReqError(feedErr)
        ELSE IF calls.err # Nil THEN ClientReqError(calls.err)
        ELSE [err |-> Nil, includes |-> requestedFields, feed |-> req.feed,
              expr |-> parsed.args, calls |-> calls.calls, MultiTxs |-> req.MultiTxs]

-----------------------------------------------------------------------------
(* Client handler: the feed manager and the subscribe and unsubscribe requests *)

RopstenNum == "Ropsten"
GoerliNum == "Goerli"
MainnetNum == "Mainnet"
BSCMainnetNum == "BSCMainnet"

\* the subscription ID FeedManager.Subscribe gives, the ID of a subscription of
\* an earlier request, an ID of no subscription, and uuid.Nil
NewID == "s1"
OldID == "s0"
UnknownID == "s9"
NilUUID == "00000000"
UUIDs == {NewID, OldID, UnknownID}

\* uuid.FromString; the caller drops its error
FromString(str) == IF str \in UUIDs THEN str ELSE NilUUID

\* FeedManager.Subscribe, Unsubscribe and SubscriptionExists
Subscribe(subs, id, feed, includes) ==
    [i \in DOMAIN subs \cup {id} |->
        IF i = id THEN [feed |-> feed, includes |-> includes] ELSE subs[i]]
Unsubscribe(subs, id) ==
    IF id \in DOMAIN subs
    THEN [err |-> Nil, subs |-> [i \in DOMAIN subs \ {id} |-> subs[i]]]
    ELSE [err |-> "subscription not found", subs |-> subs]
SubscriptionExists(subs, id) == id \in DOMAIN subs

\* Handle, RPCSubscribe, with no node endpoint: the feeds that are refused
EndpointRequiredAnyNetwork(feed, networkNum) ==
    feed \notin {NewTxsFeed, BDNBlocksFeed, NewBeaconBlocksFeed,
                 BDNBeaconBlocksFeed, NewBlocksFeed}
EndpointRequired(feed, networkNum) ==
    CASE feed \in {NewTxsFeed, BDNBlocksFeed, NewBeaconBlocksFeed,
                   BDNBeaconBlocksFeed} -> FALSE
      [] feed = NewBlocksFeed ->
            ~(networkNum = RopstenNum \/ networkNum = GoerliNum
              \/ networkNum = MainnetNum)
      [] OTHER -> TRUE

TxFeeds == {NewTxsFeed, PendingTxsFeed}
PlainBlockFeeds ==
    {BDNBlocksFeed, NewBlocksFeed, NewBeaconBlocksFeed, BDNBeaconBlocksFeed}
FanOutFeeds == {TxReceiptsFeed, OnBlockFeed}

\* Handle returns after FeedManager.Subscribe: the deferred Unsubscribe runs
ReturnsWithoutUnsubscribe ==
    /\ hpc' = "returned"
    /\ UNCHANGED subscriptions
    /\ chanOpen' = FALSE
    /\ batch' = <<>>
Returns ==
    /\ hpc' = "returned"
    /\ subscriptions' = Unsubscribe(subscriptions, NewID).subs
    /\ chanOpen' = FALSE
    /\ batch' = <<>>

\* Handle(RPCSubscribe) up to the delivery loop
HandleSubscribe ==
    /\ request.method = "subscribe"
    /\ hpc = "new"
    /\ LET cr == createClientReq(request, connAccount, gateway)
           noEndpoint == /\ gateway.providers = 0
                         /\ EndpointRequired(cr.feed, gateway.networkNum)
       IN  /\ clientReq' = cr
           /\ IF cr.err # Nil \/ noEndpoint \/ ~gateway.subscribeOk
              THEN /\ sent' = SendErrorMsg(sent, connected, InvalidParams,
                                  IF cr.err # Nil THEN cr.err
                                  ELSE IF noEndpoint
                                  THEN "feed requires a websockets endpoint"
                                  ELSE "subscribe failed")
                   /\ hpc' = "returned"
                   /\ UNCHANGED <<subscriptions, chanOpen, batch, callActive>>
              ELSE IF ~connected
              THEN \* the reply fails, and so does the error message
                   /\ UNCHANGED <<sent, subscriptions, chanOpen, batch, callActive>>
                   /\ hpc' = "returned"
              ELSE IF cr.MultiTxs /\ cr.feed \notin TxFeeds
              THEN /\ sent' = sent \o
                        <<Result(NewID),
                          ErrorMsg(InvalidParams,
                                   "multi tx support only in new txs or pending txs")>>
                   /\ UNCHANGED <<subscriptions, chanOpen, batch, callActive>>
                   /\ hpc' = "returned"
              ELSE /\ subscriptions' =
                        Subscribe(subscriptions, NewID, cr.feed, cr.includes)
                   /\ sent' = Append(sent, Result(NewID))
                   /\ chanOpen' = TRUE
                   /\ callActive' = [n \in DOMAIN cr.calls |-> TRUE]
                   /\ hpc' = IF cr.MultiTxs THEN "multi" ELSE "loop"
                   /\ UNCHANGED batch
    /\ UNCHANGED <<gateway, connAccount, request, connected, feedChan, errMsgChan,
                   pulled, nPublished, curBlock, taskPc, synced,
                   bridgeVars, fillVars, bpVars, calcVars, subVars, wsVars>>

\* Handle, RPCUnsubscribe: the params must be one ID
WrongLengthNone(params) == Len(params) = 0
WrongLength(params) == Len(params) # 1

\* Handle(RPCUnsubscribe)
HandleUnsubscribe ==
    /\ request.method = "unsubscribe"
    /\ hpc = "new"
    /\ hpc' = "returned"
    /\ IF request.params = "nil"
       THEN /\ sent' = SendErrorMsg(sent, connected, InvalidParams,
                                    "params is missing in the request")
            /\ UNCHANGED subscriptions
       ELSE IF WrongLength(request.ids)
       THEN /\ sent' = SendErrorMsg(sent, connected, InvalidParams,
                                    "params with incorrect length")
            /\ UNCHANGED subscriptions
       ELSE LET uid == FromString(request.ids[1])
                un == Unsubscribe(subscriptions, uid)
                afterFalse == IF un.err # Nil THEN Write(sent, connected, Result("false"))
                              ELSE sent
            IN  /\ subscriptions' = un.subs
                /\ sent' = Write(afterFalse, connected, Result("true"))
    /\ UNCHANGED <<gateway, connAccount, request, clientReq, connected, loopVars,
                   fanVars, bridgeVars, fillVars, bpVars, calcVars, subVars, wsVars>>

-----------------------------------------------------------------------------
(* Client handler: the delivery loop of a subscription *)

\* the notifications of the model: eval is what the filter expression of the
\* subscription gives for a transaction ("send", "unsatisfied", "error"), or
\* "nofields" when it gives true and tx.Fields gives nil; txs is the number of
\* transactions of a block
TxEvals == {"send", "unsatisfied", "error", "nofields"}
TxNotification(id, eval) == [id |-> id, eval |-> eval, txs |-> 0]
BlockNotification(id, txs) == [id |-> id, eval |-> "send", txs |-> txs]

\* strings.Contains(param, "tx_contents") for a param of the includes
HasTxContent(includes) ==
    \E i \in 1..Len(includes) :
        includes[i] = "tx_contents" \/ utilsExists(includes[i], txContentFields)

\* filterAndInclude: TRUE when it gives a response, FALSE when it gives nil
filterAndIncludeAll(cr, tx) == TRUE
filterAndInclude(cr, tx) ==
    IF cr.expr # <<>> /\ tx.eval \in {"unsatisfied", "error"} THEN FALSE
    ELSE IF HasTxContent(cr.includes) /\ tx.eval = "nofields" THEN FALSE
    ELSE TRUE

\* the feed manager sends a notification to the subscription
Publish ==
    /\ SubscriptionExists(subscriptions, NewID)
    /\ chanOpen
    /\ nPublished < MaxPublish
    /\ nPublished' = nPublished + 1
    /\ LET id == Len(pulled) + Len(feedChan) + 1
       IN  \E n \in IF clientReq.feed \in TxFeeds
                   THEN {TxNotification(id, e) : e \in TxEvals}
                   ELSE IF clientReq.feed = TxReceiptsFeed
                   THEN {BlockNotification(id, k) : k \in {0, MaxBlockTxs}}
                   ELSE {BlockNotification(id, 0)} :
              feedChan' = Append(feedChan, n)
    /\ UNCHANGED <<reqVars, subscriptions, sent, connected, hpc, chanOpen,
                   errMsgChan, pulled, batch, fanVars,
                   bridgeVars, fillVars, bpVars, calcVars, subVars, wsVars>>

\* the feed manager sends an error message to the subscription
PublishError ==
    /\ SubscriptionExists(subscriptions, NewID)
    /\ chanOpen
    /\ errMsgChan = <<>>
    /\ nPublished < MaxPublish
    /\ nPublished' = nPublished + 1
    /\ errMsgChan' = <<"feed error">>
    /\ UNCHANGED <<reqVars, subscriptions, sent, connected, hpc, feedChan, chanOpen,
                   pulled, batch, fanVars, bridgeVars, fillVars, bpVars, calcVars, subVars, wsVars>>

\* the feed manager closes the channel of the subscription, with or without
\* removing the subscription
CloseFeed ==
    /\ SubscriptionExists(subscriptions, NewID)
    /\ chanOpen
    /\ chanOpen' = FALSE
    /\ \E remove \in BOOLEAN :
          subscriptions' = IF remove THEN Unsubscribe(subscriptions, NewID).subs
                           ELSE subscriptions
    /\ UNCHANGED <<reqVars, sent, connected, hpc, feedChan, errMsgChan, pulled,
                   nPublished, batch, fanVars, bridgeVars, fillVars, bpVars, calcVars, subVars, wsVars>>

\* the client leaves
Disconnect ==
    /\ connected
    /\ hpc \notin {"-", "returned"}
    /\ connected' = FALSE
    /\ UNCHANGED <<reqVars, subscriptions, sent, hpc, loopVars, fanVars,
                   bridgeVars, fillVars, bpVars, calcVars, subVars, wsVars>>

\* the node endpoints lose their synced provider
ProviderUnsynced ==
    /\ synced
    /\ hpc \in {"loop", "wait"}
    /\ clientReq.feed \in FanOutFeeds
    /\ synced' = FALSE
    /\ UNCHANGED <<reqVars, subscriptions, sent, connected, hpc, loopVars,
                   curBlock, taskPc, callActive, bridgeVars, fillVars, bpVars,
                   calcVars, subVars, wsVars>>

\* the loop of Handle: case <-conn.DisconnectNotify()
LoopDisconnect ==
    /\ hpc = "loop"
    /\ ~connected
    /\ Returns
    /\ UNCHANGED <<reqVars, sent, connected, feedChan, errMsgChan, pulled,
                   nPublished, fanVars, bridgeVars, fillVars, bpVars, calcVars, subVars, wsVars>>

\* the loop of Handle: case errMsg := <-sub.ErrMsgChan
LoopErrMsg ==
    /\ hpc = "loop"
    /\ errMsgChan # <<>>
    /\ errMsgChan' = Tail(errMsgChan)
    /\ sent' = SendErrorMsg(sent, connected, InvalidParams, Head(errMsgChan))
    /\ Returns
    /\ UNCHANGED <<reqVars, connected, feedChan, pulled, nPublished, fanVars,
                   bridgeVars, fillVars, bpVars, calcVars, subVars, wsVars>>

\* the loop of Handle: the feed channel is closed and empty
LoopClosed ==
    /\ hpc = "loop"
    /\ feedChan = <<>>
    /\ ~chanOpen
    /\ sent' = IF SubscriptionExists(subscriptions, NewID)
               THEN SendErrorMsg(sent, connected, InternalError, "close")
               ELSE sent
    /\ Returns
    /\ UNCHANGED <<reqVars, connected, feedChan, errMsgChan, pulled, nPublished,
                   fanVars, bridgeVars, fillVars, bpVars, calcVars, subVars, wsVars>>

\* conn.Notify of one notification, at the end or at the front of what was sent
SendFirst(out, msg) == <<msg>> \o out
Send(out, msg) == Append(out, msg)

\* the loop of Handle: a notification of a transaction feed or of a block feed
\* is received; sendTxNotification or sendNotification
LoopDeliver ==
    /\ hpc = "loop"
    /\ feedChan # <<>>
    /\ clientReq.feed \in TxFeeds \cup PlainBlockFeeds
    /\ LET n == Head(feedChan)
       IN  /\ feedChan' = Tail(feedChan)
           /\ pulled' = Append(pulled, n)
           /\ IF clientReq.feed \in TxFeeds /\ ~filterAndInclude(clientReq, n)
              THEN UNCHANGED <<sent, hpc, subscriptions, chanOpen, batch>>
              ELSE IF ~connected
              THEN Returns /\ UNCHANGED sent
              ELSE /\ sent' = Send(sent, Notify(IF clientReq.feed \in TxFeeds
                                                THEN "tx" ELSE "block",
                                                "", <<n.id>>, clientReq.includes))
                   /\ UNCHANGED <<hpc, subscriptions, chanOpen, batch>>
    /\ UNCHANGED <<reqVars, connected, errMsgChan, nPublished, fanVars,
                   bridgeVars, fillVars, bpVars, calcVars, subVars, wsVars>>

-----------------------------------------------------------------------------
(* Client handler: subscribeMultiTxs.  hpc is "multi" at the select of the   *)
(* outer loop and "drain" at the select of the inner loop.                   *)

\* the results a notify of subscribeMultiTxs carries at most
multiTxsLimit == 50

\* the inner loop stops after a receive
BatchFullNever(result) == FALSE
BatchFull(result) == Len(result) >= multiTxsLimit

\* after the inner loop: conn.Notify of a batch that is not empty; an error of
\* Notify ends subscribeMultiTxs and Handle
Flush(result) ==
    IF Len(result) = 0
    THEN /\ hpc' = "multi"
         /\ batch' = <<>>
         /\ UNCHANGED <<sent, subscriptions, chanOpen>>
    ELSE IF ~connected
    THEN Returns /\ UNCHANGED sent
    ELSE /\ sent' = Send(sent, Notify("txs", "", result, clientReq.includes))
         /\ hpc' = "multi"
         /\ batch' = <<>>
         /\ UNCHANGED <<subscriptions, chanOpen>>

\* case notification, ok := <-(*feedChan), with ok, of either select
MultiReceive ==
    /\ hpc \in {"multi", "drain"}
    /\ feedChan # <<>>
    /\ LET n == Head(feedChan)
           held == IF hpc = "multi" THEN <<>> ELSE batch
           result == IF filterAndInclude(clientReq, n) THEN Append(held, n.id)
                     ELSE held
       IN  /\ feedChan' = Tail(feedChan)
           /\ pulled' = Append(pulled, n)
           /\ IF hpc = "drain" /\ BatchFull(result)
              THEN Flush(result)
              ELSE /\ hpc' = "drain"
                   /\ batch' = result
                   /\ UNCHANGED <<sent, subscriptions, chanOpen>>
    /\ UNCHANGED <<reqVars, connected, errMsgChan, nPublished, fanVars,
                   bridgeVars, fillVars, bpVars, calcVars, subVars, wsVars>>

\* the default case of the inner select: nothing can be received and the
\* client has not left
MultiDefault ==
    /\ hpc = "drain"
    /\ feedChan = <<>>
    /\ chanOpen
    /\ connected
    /\ Flush(batch)
    /\ UNCHANGED <<reqVars, connected, feedChan, errMsgChan, pulled, nPublished,
                   fanVars, bridgeVars, fillVars, bpVars, calcVars, subVars, wsVars>>

\* case <-conn.DisconnectNotify() of either select: subscribeMultiTxs returns
\* nil and Handle goes on to its loop
MultiDisconnect ==
    /\ hpc \in {"multi", "drain"}
    /\ ~connected
    /\ hpc' = "loop"
    /\ batch' = <<>>
    /\ UNCHANGED <<reqVars, subscriptions, sent, connected, feedChan, chanOpen,
                   errMsgChan, pulled, nPublished, fanVars,
                   bridgeVars, fillVars, bpVars, calcVars, subVars, wsVars>>

\* case notification, ok := <-(*feedChan), without ok, of either select
MultiClosed ==
    /\ hpc \in {"multi", "drain"}
    /\ feedChan = <<>>
    /\ ~chanOpen
    /\ sent' = IF SubscriptionExists(subscriptions, NewID)
               THEN SendErrorMsg(sent, connected, InternalError, "close")
               ELSE sent
    /\ Returns
    /\ UNCHANGED <<reqVars, connected, feedChan, errMsgChan, pulled, nPublished,
                   fanVars, bridgeVars, fillVars, bpVars, calcVars, subVars, wsVars>>

-----------------------------------------------------------------------------
(* Client handler: the onBlock and txReceipts feeds.  hpc is "wait" while    *)
(* the goroutines of a block run and Handle waits for them.                  *)

TaskDisabledEvent == "TaskDisabledEvent"
TaskCompletedEvent == "TaskCompletedEvent"

\* block.Header.GetNumber(): the blocks of the model have the heights 1, 2, ...
BlockNumber(block) == block.id

\* types.NewOnBlockNotification, sent with the fields of the request
NewOnBlockNotification(name, response, block, tag, fields) ==
    [Notify(name, response, <<block.id>>, fields) EXCEPT !.tag = tag]

\* the goroutines of a block: one per call of the request, one per transaction
TasksFirstOnly(feed, block, calls) ==
    IF feed = OnBlockFeed THEN DOMAIN calls
    ELSE {Itoa(i - 1) : i \in 1..(IF block.txs > 0 THEN 1 ELSE 0)}
Tasks(feed, block, calls) ==
    IF feed = OnBlockFeed THEN DOMAIN calls
    ELSE {Itoa(i - 1) : i \in 1..block.txs}

\* the loop of Handle: a block of the onBlock or the txReceipts feed is received
FanOutStart ==
    /\ hpc = "loop"
    /\ feedChan # <<>>
    /\ clientReq.feed \in FanOutFeeds
    /\ feedChan' = Tail(feedChan)
    /\ pulled' = Append(pulled, Head(feedChan))
    /\ IF ~synced
       THEN Returns /\ UNCHANGED <<curBlock, taskPc>>
       ELSE /\ curBlock' = Head(feedChan)
            /\ taskPc' = [t \in Tasks(clientReq.feed, Head(feedChan), clientReq.calls)
                            |-> "started"]
            /\ hpc' = "wait"
            /\ UNCHANGED <<subscriptions, chanOpen, batch>>
    /\ UNCHANGED <<reqVars, sent, connected, errMsgChan, nPublished, callActive,
                   synced, bridgeVars, fillVars, bpVars, calcVars, subVars, wsVars>>

\* the goroutine of one call of an onBlock subscription
CallRun(c) ==
    /\ hpc = "wait"
    /\ clientReq.feed = OnBlockFeed
    /\ c \in DOMAIN taskPc
    /\ taskPc[c] = "started"
    /\ taskPc' = [taskPc EXCEPT ![c] = "done"]
    /\ IF ~callActive[c]
       THEN UNCHANGED <<sent, callActive>>
       ELSE \E outcome \in {"payload error", "call error", "ok"} :
            LET tag == AddOffset(BlockNumber(curBlock), clientReq.calls[c].blockOffset)
            IN CASE outcome = "payload error" -> UNCHANGED <<sent, callActive>>
                 [] outcome = "call error" ->
                       /\ callActive' = [callActive EXCEPT ![c] = FALSE]
                       /\ sent' = Write(sent, connected,
                                    NewOnBlockNotification(TaskDisabledEvent, c,
                                        curBlock, tag, clientReq.includes))
                 [] outcome = "ok" ->
                       /\ sent' = Write(sent, connected,
                                    NewOnBlockNotification(c, "response",
                                        curBlock, tag, clientReq.includes))
                       /\ UNCHANGED callActive
    /\ UNCHANGED <<reqVars, subscriptions, connected, hpc, loopVars, curBlock,
                   synced, bridgeVars, fillVars, bpVars, calcVars, subVars, wsVars>>

\* the goroutine of one transaction of a block of a txReceipts subscription
ReceiptRun(t) ==
    /\ hpc = "wait"
    /\ clientReq.feed = TxReceiptsFeed
    /\ t \in DOMAIN taskPc
    /\ taskPc[t] = "started"
    /\ \E outcome \in {"fetch error", "no response", "ok"} :
          IF outcome = "ok" /\ connected
          THEN /\ sent' = Send(sent, Notify("receipt", t, <<curBlock.id>>,
                                            clientReq.includes))
               /\ taskPc' = [taskPc EXCEPT ![t] = "done"]
          ELSE IF outcome = "no response"
          THEN \* the goroutine returns the nil error of the fetch
               /\ taskPc' = [taskPc EXCEPT ![t] = "empty"]
               /\ UNCHANGED sent
          ELSE /\ taskPc' = [taskPc EXCEPT ![t] = "failed"]
               /\ UNCHANGED sent
    /\ UNCHANGED <<reqVars, subscriptions, connected, hpc, loopVars, curBlock,
                   callActive, synced, bridgeVars, fillVars, bpVars, calcVars, subVars, wsVars>>

\* wg.Wait() and g.Wait(): every goroutine of the block has returned
WaitNone(tasks) == TRUE
Wait(tasks) == \A t \in DOMAIN tasks : tasks[t] # "started"

\* after wg.Wait(): the TaskCompletedEvent of the block; after g.Wait(): the
\* error of the group ends Handle
FanOutEnd ==
    /\ hpc = "wait"
    /\ Wait(taskPc)
    /\ IF clientReq.feed = OnBlockFeed
       THEN IF ~connected
            THEN Returns /\ UNCHANGED sent
            ELSE /\ sent' = Send(sent,
                                NewOnBlockNotification(TaskCompletedEvent, "",
                                    curBlock, U64(BlockNumber(curBlock)),
                                    clientReq.includes))
                 /\ hpc' = "loop"
                 /\ UNCHANGED <<subscriptions, chanOpen, batch>>
       ELSE IF \E t \in DOMAIN taskPc : taskPc[t] = "failed"
            THEN Returns /\ UNCHANGED sent
            ELSE /\ hpc' = "loop"
                 /\ UNCHANGED <<sent, subscriptions, chanOpen, batch>>
    /\ UNCHANGED <<reqVars, connected, feedChan, errMsgChan, pulled, nPublished,
                   fanVars, bridgeVars, fillVars, bpVars, calcVars, subVars, wsVars>>

\* the steps of a handler and of what it talks to
HandlerNext ==
    \/ HandleSubscribe
    \/ HandleUnsubscribe
    \/ Publish
    \/ PublishError
    \/ CloseFeed
    \/ Disconnect
    \/ ProviderUnsynced
    \/ LoopDisconnect
    \/ LoopErrMsg
    \/ LoopClosed
    \/ LoopDeliver
    \/ MultiReceive
    \/ MultiDefault
    \/ MultiDisconnect
    \/ MultiClosed
    \/ FanOutStart
    \/ \E c \in DOMAIN taskPc : CallRun(c)
    \/ \E t \in DOMAIN taskPc : ReceiptRun(t)
    \/ FanOutEnd

-----------------------------------------------------------------------------
(* SpecRequest: one subscribe or unsubscribe request reaches the handler of  *)
(* a connection, for every feed, account and gateway of the model; a         *)
(* subscription of a transaction feed or a block feed is then served.  The   *)
(* MultiTxs subscriptions are served in SpecDeliver, those of onBlock and    *)
(* txReceipts in SpecFanOut.                                                 *)

GatewayAccount == "gw"
OtherAccount == "other"

Gateways ==
    [providers : {0, 1},
     networkNum : {RopstenNum, GoerliNum, MainnetNum, BSCMainnetNum},
     AccountID : {GatewayAccount},
     subscribeOk : BOOLEAN]

\* the feed services of an account: everything allowed, expired, or a few
\* fields without filtering
Services ==
    { [expired |-> FALSE, AllowFiltering |-> TRUE, AvailableFields |-> {"all"}],
      [expired |-> TRUE, AllowFiltering |-> TRUE, AvailableFields |-> {"all"}],
      [expired |-> FALSE, AllowFiltering |-> FALSE,
       AvailableFields |-> {"tx_hash", "hash", "name", "status"}] }

AccountWith(id, service) ==
    [AccountID |-> id, NewTransactionStreaming |-> service,
     PendingTransactionStreaming |-> service, NewBlockStreaming |-> service,
     OnBlockFeed |-> service, TransactionReceiptFeed |-> service]

Accounts == {AccountWith(id, sv) : id \in {GatewayAccount, OtherAccount}, sv \in Services}

CallParam(name, method, tag, payload) ==
    [name |-> name, method |-> method, tag |-> tag, payload |-> payload]

\* the Call-Params of the onBlock requests
CallParamLists ==
    { <<>>,
      <<CallParam("a", "eth_call", "latest", "ok")>>,
      <<CallParam("a", "eth_call", "-1", "ok"),
        CallParam("", "eth_blockNumber", "0", "ok")>>,
      <<CallParam("a", "eth_call", "latest", "ok"),
        CallParam("a", "eth_getBalance", "latest", "ok")>>,
      <<CallParam("a", "eth_call", "1", "ok")>>,
      <<CallParam("a", "eth_getBalance", "-2", "ok")>>,
      <<CallParam("a", "eth_sign", "latest", "ok")>> }

IncludeLists ==
    { <<>>, <<"tx_hash">>, <<"hash">>, <<"tx_contents", "tx_hash">>, <<"slot">>,
      <<"name">>, <<"status">> }

FilterStrings == {"", "{gas} > 21000", "(from)"}

SubscribeRequest(params, feed, hasInclude, include, filters, calls, multi) ==
    [method |-> "subscribe", params |-> params, feed |-> feed,
     hasInclude |-> hasInclude, Include |-> include, Filters |-> filters,
     CallParams |-> calls, MultiTxs |-> multi, ids |-> <<>>]

UnsubscribeRequest(params, ids) ==
    [method |-> "unsubscribe", params |-> params, feed |-> "",
     hasInclude |-> FALSE, Include |-> <<>>, Filters |-> "",
     CallParams |-> <<>>, MultiTxs |-> FALSE, ids |-> ids]

FeedNames == Elems(availableFeeds) \cup {"newPosts"}

SubscribeRequests ==
    {SubscribeRequest("ok", f, TRUE, inc, fl, <<>>, mt) :
        f \in FeedNames \ {OnBlockFeed}, inc \in IncludeLists,
        fl \in FilterStrings, mt \in BOOLEAN}
    \cup {SubscribeRequest("ok", OnBlockFeed, TRUE, inc, "", cp, mt) :
            inc \in {<<>>, <<"name">>, <<"hash">>}, cp \in CallParamLists,
            mt \in BOOLEAN}
    \cup {SubscribeRequest("ok", f, FALSE, <<>>, "", <<>>, FALSE) : f \in FeedNames}
    \cup {SubscribeRequest(p, NewTxsFeed, FALSE, <<>>, "", <<>>, FALSE) :
            p \in {"nil", "short"}}

UnsubscribeRequests ==
    {UnsubscribeRequest("nil", <<>>)}
    \cup {UnsubscribeRequest("ok", ids) :
            ids \in {<<>>, <<OldID>>, <<UnknownID>>, <<"not a uuid">>,
                     <<OldID, OldID>>, <<OldID, UnknownID>>}}

\* the subscription of an earlier request of another connection
OldSubscriptions == Subscribe(EmptyMap, OldID, NewTxsFeed, <<"tx_hash">>)

\* a request has reached a new handler
HandlerStarts(req, gw, account, subs) ==
    /\ gateway = gw
    /\ connAccount = account
    /\ request = req
    /\ clientReq = NoClientReq
    /\ subscriptions = subs
    /\ sent = <<>>
    /\ connected = TRUE
    /\ hpc = "new"
    /\ feedChan = <<>>
    /\ chanOpen = FALSE
    /\ errMsgChan = <<>>
    /\ pulled = <<>>
    /\ nPublished = 0
    /\ batch = <<>>
    /\ curBlock = NoNotification
    /\ taskPc = EmptyMap
    /\ callActive = EmptyMap
    /\ synced = (gw.providers > 0)
    /\ SubmitIdle
    /\ UpgradeIdle

InitRequest ==
    /\ BridgeStarts(FALSE, EmptyChans)
    /\ FillIdle
    /\ BpIdle
    /\ CalcIdle
    /\ \E gw \in Gateways, account \in Accounts :
          \/ \E req \in SubscribeRequests :
                HandlerStarts(req, gw, account, EmptyMap)
          \/ \E req \in UnsubscribeRequests, subs \in {EmptyMap, OldSubscriptions} :
                HandlerStarts(req, gw, account, subs)

NextRequest ==
    \/ HandleSubscribe
    \/ HandleUnsubscribe
    \/ Publish
    \/ Disconnect
    \/ LoopDisconnect
    \/ LoopDeliver

SpecRequest == InitRequest /\ [][NextRequest]_vars

-----------------------------------------------------------------------------
(* Client handler: the properties of subscribe and unsubscribe (SpecRequest) *)

\* Handle takes the subscribe request in this step
SubscribeStep == request.method = "subscribe" /\ hpc = "new" /\ hpc' # "new"

\* the step refuses the request with InvalidParams and registers nothing
RefusedInvalidParams ==
    /\ hpc' = "returned"
    /\ subscriptions' = subscriptions
    /\ ~SubscriptionExists(subscriptions', NewID)
    /\ \E text \in {clientReq'.err, "feed requires a websockets endpoint",
                    "subscribe failed"} :
          sent' = Write(sent, connected, ErrorMsg(InvalidParams, text))

\* the feeds a gateway without node endpoint serves
C14_Allowed ==
    \/ request.feed \in {NewTxsFeed, BDNBlocksFeed, NewBeaconBlocksFeed,
                         BDNBeaconBlocksFeed}
    \/ /\ request.feed = NewBlocksFeed
       /\ gateway.networkNum \in {RopstenNum, GoerliNum, MainnetNum}

\* C14: on a gateway without node websocket endpoint, a subscribe request for a
\* feed other than newTxs, bdnBlocks, newBeaconBlocks, bdnBeaconBlocks, and
\* newBlocks on Ropsten, Goerli or Mainnet, is refused with InvalidParams and
\* registers no subscription; for those feeds the missing endpoint is no
\* reason to refuse: a request that createClientReq and the feed manager accept
\* is registered and answered with its subscription ID.
C14_EndpointGate ==
    [][ (SubscribeStep /\ gateway.providers = 0) =>
            IF ~C14_Allowed THEN RefusedInvalidParams
            ELSE /\ \A i \in 1..Len(sent') :
                      sent'[i].text # "feed requires a websockets endpoint"
                 /\ (/\ clientReq'.err = Nil
                     /\ gateway.subscribeOk
                     /\ connected
                     /\ (request.MultiTxs => request.feed \in TxFeeds))
                    => /\ SubscriptionExists(subscriptions', NewID)
                       /\ sent' = <<Result(NewID)>> ]_vars

\* newBlocks on another network is refused for the endpoint alone, and a
\* beacon feed is registered without endpoint
C14_Witness ==
    /\ gateway.providers = 0
    /\ request.method = "subscribe"
    /\ request.feed = NewBlocksFeed
    /\ gateway.networkNum = BSCMainnetNum
    /\ hpc = "returned"
    /\ clientReq.err = Nil
    /\ Len(sent) = 1
    /\ sent[1].code = InvalidParams
    /\ sent[1].text = "feed requires a websockets endpoint"
C14_AllowedWitness ==
    /\ gateway.providers = 0
    /\ request.feed = NewBeaconBlocksFeed
    /\ SubscriptionExists(subscriptions, NewID)
    /\ sent = <<Result(NewID)>>

-----------------------------------------------------------------------------
(* SpecFanOut: a subscribe request for onBlock or txReceipts reaches a       *)
(* gateway with a node endpoint, from the gateway's account or from another; *)
(* the subscription is served block by block until the handler returns.      *)

FanOutGateway ==
    [providers |-> 1, networkNum |-> MainnetNum, AccountID |-> GatewayAccount,
     subscribeOk |-> TRUE]

FanOutRequests ==
    {SubscribeRequest("ok", OnBlockFeed, TRUE, <<>>, "", cp, FALSE) :
        cp \in CallParamLists}
    \cup {SubscribeRequest("ok", TxReceiptsFeed, TRUE, <<>>, "", <<>>, FALSE)}

InitFanOut ==
    /\ BridgeStarts(FALSE, EmptyChans)
    /\ FillIdle
    /\ BpIdle
    /\ CalcIdle
    /\ \E req \in FanOutRequests, id \in {GatewayAccount, OtherAccount} :
          HandlerStarts(req, FanOutGateway,
                        AccountWith(id, [expired |-> FALSE, AllowFiltering |-> TRUE,
                                         AvailableFields |-> {"all"}]),
                        EmptyMap)

NextFanOut ==
    \/ HandleSubscribe
    \/ Publish
    \/ PublishError
    \/ CloseFeed
    \/ Disconnect
    \/ ProviderUnsynced
    \/ LoopDisconnect
    \/ LoopErrMsg
    \/ LoopClosed
    \/ FanOutStart
    \/ \E c \in DOMAIN taskPc : CallRun(c)
    \/ \E t \in DOMAIN taskPc : ReceiptRun(t)
    \/ FanOutEnd

SpecFanOut == InitFanOut /\ [][NextFanOut]_vars

-----------------------------------------------------------------------------
(* Client handler: onBlock and txReceipts (SpecFanOut) *)

\* a subscribe request for onBlock or txReceipts of a connection whose account
\* is not the gateway's
C15_CloudCase ==
    /\ request.method = "subscribe"
    /\ request.params = "ok"
    /\ request.feed \in {OnBlockFeed, TxReceiptsFeed}
    /\ connAccount.AccountID # gateway.AccountID

\* C15: a subscribe request for onBlock, and for txReceipts, of a connection
\* whose account differs from the gateway's is rejected: the handler answers
\* with an error and returns, no subscription is registered, and nothing is
\* ever sent to, received by or notified for a subscription of the request.
C15_CloudRejected ==
    /\ [][ (SubscribeStep /\ C15_CloudCase) =>
              /\ RefusedInvalidParams
              /\ clientReq'.err = "feed is not available via cloud services" ]_vars
    /\ [](C15_CloudCase /\ hpc # "new" =>
              /\ hpc = "returned"
              /\ ~SubscriptionExists(subscriptions, NewID)
              /\ feedChan = <<>>
              /\ pulled = <<>>
              /\ \A i \in 1..Len(sent) : sent[i].kind = "error")

C15_Witness ==
    /\ C15_CloudCase
    /\ request.feed = TxReceiptsFeed
    /\ hpc = "returned"
    /\ sent = <<ErrorMsg(InvalidParams, "feed is not available via cloud services")>>
    /\ subscriptions = EmptyMap

-----------------------------------------------------------------------------
(* Client handler: the fields of a request with an empty Include (SpecRequest) *)

\* createClientReq has accepted a subscribe request with Include = []
C16_EmptyInclude ==
    /\ request.method = "subscribe"
    /\ hpc # "new"
    /\ request.hasInclude
    /\ request.Include = <<>>
    /\ clientReq.err = Nil

\* the default fields of the field tables
C16_TableDefault(feed) ==
    IF feed \in TxFeeds THEN defaultTxParams ELSE validParams(feed)

\* C16: with Include = [] the requested fields are, for newTxs and pendingTxs,
\* all tx_contents.* fields and tx_hash, local_region, time, and for bdnBlocks,
\* newBlocks, newBeaconBlocks and bdnBeaconBlocks the full list of allowed
\* fields of that feed (hash, header, slot, body for the beacon feeds); so the
\* default fields of every feed are among the allowed fields of the feed.
C16_DefaultsAllowed ==
    C16_EmptyInclude /\ request.feed \in TxFeeds \cup PlainBlockFeeds =>
        /\ clientReq.includes = C16_TableDefault(request.feed)
        /\ Elems(clientReq.includes) \subseteq Elems(validParams(request.feed))

\* what holds of the code: the defaults of the table for the transaction feeds,
\* bdnBlocks and newBlocks, and the fields of bdnBlocks for the beacon feeds
C16_DefaultsOfCode ==
    C16_EmptyInclude /\ request.feed \in TxFeeds \cup PlainBlockFeeds =>
        clientReq.includes =
            IF request.feed \in {NewBeaconBlocksFeed, BDNBeaconBlocksFeed}
            THEN validParams(BDNBlocksFeed)
            ELSE C16_TableDefault(request.feed)

-----------------------------------------------------------------------------
(* Client handler: unsubscribe (SpecRequest) *)

\* Handle takes the unsubscribe request in this step
UnsubscribeStep == request.method = "unsubscribe" /\ hpc = "new" /\ hpc' # "new"

\* what the step wrote to the connection
Written == SubSeq(sent', Len(sent) + 1, Len(sent'))

\* C17: unsubscribe(id) of a registered id removes the subscription and
\* replies "true"; for an id that is not registered every answer is a result,
\* none an error, there is an answer, the last one is "true", and the registry
\* is unchanged; without params, or with a params list of another length than
\* one, the answer is the error InvalidParams and the registry is unchanged.
C17_Unsubscribe ==
    [][ UnsubscribeStep =>
          IF request.params = "nil" \/ Len(request.ids) # 1
          THEN /\ subscriptions' = subscriptions
               /\ \E text \in {"params is missing in the request",
                               "params with incorrect length"} :
                     sent' = Write(sent, connected, ErrorMsg(InvalidParams, text))
          ELSE IF request.ids[1] \in DOMAIN subscriptions
          THEN /\ DOMAIN subscriptions' = DOMAIN subscriptions \ {request.ids[1]}
               /\ sent' = Write(sent, connected, Result("true"))
          ELSE /\ subscriptions' = subscriptions
               /\ \A i \in 1..Len(Written) : Written[i].kind = "result"
               /\ connected =>
                     /\ Written # <<>>
                     /\ Written[Len(Written)] = Result("true") ]_vars

\* an id that is not registered was answered, and a registered one removed
C17_Witness ==
    /\ request.method = "unsubscribe"
    /\ request.ids = <<UnknownID>>
    /\ hpc = "returned"
    /\ subscriptions = OldSubscriptions
    /\ sent = <<Result("false"), Result("true")>>
C17_KnownWitness ==
    /\ request.method = "unsubscribe"
    /\ request.ids = <<OldID>>
    /\ hpc = "returned"
    /\ subscriptions = EmptyMap
    /\ sent = <<Result("true")>>
C17_LengthWitness ==
    /\ request.method = "unsubscribe"
    /\ Len(request.ids) = 2
    /\ hpc = "returned"
    /\ subscriptions = OldSubscriptions
    /\ sent = <<ErrorMsg(InvalidParams, "params with incorrect length")>>

-----------------------------------------------------------------------------
(* SpecDeliver: a subscription of a transaction feed, with or without        *)
(* MultiTxs, or of a block feed is served.  The feed manager has sent a      *)
(* burst of notifications before the handler first receives, or it sends     *)
(* notifications one by one while the handler runs.                          *)

DeliverGateway ==
    [providers |-> 0, networkNum |-> MainnetNum, AccountID |-> GatewayAccount,
     subscribeOk |-> TRUE]
DeliverAccount ==
    AccountWith(GatewayAccount, [expired |-> FALSE, AllowFiltering |-> TRUE,
                                 AvailableFields |-> {"all"}])

DeliverRequests ==
    {SubscribeRequest("ok", f, TRUE, <<"tx_hash">>, "{gas} > 21000", <<>>, mt) :
        f \in TxFeeds, mt \in BOOLEAN}
    \cup {SubscribeRequest("ok", NewTxsFeed, TRUE, <<"tx_contents", "tx_hash">>,
                           "", <<>>, mt) : mt \in BOOLEAN}
    \cup {SubscribeRequest("ok", BDNBlocksFeed, TRUE, <<"hash">>, "", <<>>, FALSE)}

\* the lengths of the bursts, and what the filter gives for their transactions:
\* true for all of them, or false for every third and an error for every fifth
BurstLens == {0, 49, 50, 51, 75, 101, 120}
BurstEval(pattern, i) ==
    IF pattern = "all" THEN "send"
    ELSE IF i % 3 = 0 THEN "unsatisfied"
    ELSE IF i % 5 = 0 THEN "error"
    ELSE "send"
Burst(feed, pattern, n) ==
    [i \in 1..n |-> IF feed \in TxFeeds THEN TxNotification(i, BurstEval(pattern, i))
                    ELSE BlockNotification(i, 0)]

\* the state HandleSubscribe leaves for the request, with the burst in the
\* channel of the subscription
DeliverStarts(req, burst) ==
    LET cr == createClientReq(req, DeliverAccount, DeliverGateway)
    IN  /\ gateway = DeliverGateway
        /\ connAccount = DeliverAccount
        /\ request = req
        /\ clientReq = cr
        /\ subscriptions = Subscribe(EmptyMap, NewID, cr.feed, cr.includes)
        /\ sent = <<Result(NewID)>>
        /\ connected = TRUE
        /\ hpc = IF cr.MultiTxs THEN "multi" ELSE "loop"
        /\ feedChan = burst
        /\ chanOpen = TRUE
        /\ errMsgChan = <<>>
        /\ pulled = <<>>
        /\ nPublished = Len(burst)
        /\ batch = <<>>
        /\ curBlock = NoNotification
        /\ taskPc = EmptyMap
        /\ callActive = EmptyMap
        /\ synced = FALSE
        /\ SubmitIdle
        /\ UpgradeIdle

InitDeliver ==
    /\ BridgeStarts(FALSE, EmptyChans)
    /\ FillIdle
    /\ BpIdle
    /\ CalcIdle
    /\ \E req \in DeliverRequests, pattern \in {"all", "mixed"}, n \in BurstLens :
          DeliverStarts(req, Burst(req.feed, pattern, n))

NextDeliver ==
    \/ Publish
    \/ PublishError
    \/ CloseFeed
    \/ Disconnect
    \/ LoopDisconnect
    \/ LoopErrMsg
    \/ LoopClosed
    \/ LoopDeliver
    \/ MultiReceive
    \/ MultiDefault
    \/ MultiDisconnect
    \/ MultiClosed

SpecDeliver == InitDeliver /\ [][NextDeliver]_vars

-----------------------------------------------------------------------------
(* Client handler: the properties of delivery (SpecDeliver) *)

\* the notifies written to the connection, in order
IsNotify(msg) == msg.kind = "notify"
Notifies == SelectSeq(sent, IsNotify)

\* the results of a sequence of notifies, in order
RECURSIVE Flatten(_)
Flatten(msgs) == IF msgs = <<>> THEN <<>> ELSE Head(msgs).ids \o Flatten(Tail(msgs))

\* the transaction satisfies the filter of the subscription, if there is one,
\* and can be projected to the requested fields
Matching(n) ==
    /\ clientReq.expr # <<>> => n.eval \in {"send", "nofields"}
    /\ n.eval = "nofields" =>
          \A i \in 1..Len(clientReq.includes) :
              /\ clientReq.includes[i] # "tx_contents"
              /\ clientReq.includes[i] \notin Elems(txContentFields)

\* the IDs of the matching transactions the handler has received, in the order
\* it received them
MatchingPulled ==
    LET m == SelectSeq(pulled, Matching) IN [i \in 1..Len(m) |-> m[i].id]

IsPrefix(a, b) == Len(a) <= Len(b) /\ a = SubSeq(b, 1, Len(a))

C18_FilteredWitness ==
    /\ clientReq.MultiTxs
    /\ hpc = "multi"
    /\ Len(pulled) = 120
    /\ Len(MatchingPulled) = 64
    /\ Len(Notifies) = 2
    /\ Len(Notifies[2].ids) = 14
C18_SmallBatchWitness ==
    /\ clientReq.MultiTxs
    /\ hpc = "drain"
    /\ Len(Notifies) = 1
    /\ Len(Notifies[1].ids) = 1
    /\ Len(batch) = 1

\* C19: without MultiTxs, on the transaction feeds and the block feeds, every
\* notify carries one notification, and the notifies are written in the order
\* in which the handler received the notifications from the feed channel: they
\* are the received notifications that pass the filter, in that order, none
\* twice; a notification that fails the filter is left out and the others keep
\* their order.
C19_InOrder ==
    ~clientReq.MultiTxs =>
        /\ \A i \in 1..Len(Notifies) : Len(Notifies[i].ids) = 1
        /\ IsPrefix(Flatten(Notifies), MatchingPulled)
        /\ Len(Flatten(Notifies)) >= Len(MatchingPulled) - 1
        /\ hpc = "loop" => Flatten(Notifies) = MatchingPulled

\* transactions that fail the filter were received between delivered ones
C19_Witness ==
    /\ ~clientReq.MultiTxs
    /\ clientReq.feed \in TxFeeds
    /\ hpc = "loop"
    /\ Len(pulled) = 120
    /\ Len(Notifies) = 64
    /\ Notifies[2].ids = <<2>>
    /\ Notifies[3].ids = <<4>>
C19_BlockWitness ==
    /\ clientReq.feed = BDNBlocksFeed
    /\ Len(Notifies) = 75
    /\ Notifies[75].ids = <<75>>

-----------------------------------------------------------------------------
(* Client handler: the TaskCompletedEvent of onBlock (SpecFanOut) *)

\* the positions in sent of the TaskCompletedEvent of a block
Completed(id) ==
    {i \in 1..Len(sent) : sent[i].name = TaskCompletedEvent /\ sent[i].ids = <<id>>}

\* the notifies of the subscription come block after block, and after the
\* TaskCompletedEvent of a block nothing of that block follows
C20_BlockAfterBlock ==
    \A i, j \in 1..Len(sent) :
        (i < j /\ IsNotify(sent[i]) /\ IsNotify(sent[j])) =>
            /\ sent[i].ids[1] <= sent[j].ids[1]
            /\ sent[i].name = TaskCompletedEvent => sent[i].ids[1] < sent[j].ids[1]

\* a step that writes a TaskCompletedEvent starts with every goroutine of the
\* block returned
C20_AfterAllCalls ==
    [][ (/\ Len(sent') = Len(sent) + 1
         /\ sent'[Len(sent')].name = TaskCompletedEvent)
        => /\ hpc = "wait"
           /\ sent'[Len(sent')].ids = <<curBlock.id>>
           /\ \A c \in DOMAIN clientReq.calls :
                 c \in DOMAIN taskPc /\ taskPc[c] = "done" ]_vars

\* C20: for each block an onBlock subscription has received there is exactly
\* one TaskCompletedEvent, once the goroutines of the block are done with; it
\* is written only after every call of the request has finished for the block,
\* and no notification of the next block is written before it.
C20_BarrierAsStated ==
    /\ [](request.feed = OnBlockFeed =>
            /\ \A i \in 1..Len(pulled) :
                  \/ hpc = "wait" /\ i = Len(pulled)
                  \/ Cardinality(Completed(pulled[i].id)) = 1
            /\ C20_BlockAfterBlock)
    /\ C20_AfterAllCalls

\* the same, with at most one TaskCompletedEvent for each received block, and
\* exactly one for each block but the one at which the handler returned (no
\* synced provider when the block was received, or the client gone when the
\* event was to be written)
C20_Barrier ==
    /\ [](request.feed = OnBlockFeed =>
            /\ \A i \in 1..Len(pulled) :
                  /\ Cardinality(Completed(pulled[i].id)) <= 1
                  /\ (i < Len(pulled) \/ hpc = "loop") =>
                        Cardinality(Completed(pulled[i].id)) = 1
            /\ C20_BlockAfterBlock)
    /\ C20_AfterAllCalls

\* two blocks, two calls: the notifications of the calls and the
\* TaskCompletedEvent of the first block, then those of the second
C20_Witness ==
    /\ request.feed = OnBlockFeed
    /\ hpc = "loop"
    /\ Len(pulled) = 2
    /\ Cardinality(DOMAIN clientReq.calls) = 2
    /\ Len(sent) = 7
    /\ sent[4].name = TaskCompletedEvent
    /\ sent[4].ids = <<1>>
    /\ sent[7].name = TaskCompletedEvent
    /\ sent[7].ids = <<2>>
\* a block was received with no synced provider: the handler has returned, the
\* client is there, and the block has no TaskCompletedEvent
C20_NoEventWitness ==
    /\ request.feed = OnBlockFeed
    /\ hpc = "returned"
    /\ connected
    /\ Len(pulled) = 1
    /\ Completed(pulled[1].id) = {}

-----------------------------------------------------------------------------
(* Client handler: the calls of an onBlock subscription (SpecFanOut) *)

\* the goroutine of call c returns in this step
CallStep(c) ==
    /\ clientReq.feed = OnBlockFeed
    /\ hpc = "wait"
    /\ taskPc[c] = "started"
    /\ c \in DOMAIN taskPc'
    /\ taskPc'[c] = "done"

\* the step writes one notification of the block of curBlock
WritesOne ==
    /\ Len(sent') = Len(sent) + 1
    /\ SubSeq(sent', 1, Len(sent)) = sent
    /\ IsNotify(sent'[Len(sent')])
    /\ sent'[Len(sent')].ids = <<curBlock.id>>

\* C21: for every block and every call of an onBlock subscription that is
\* active when the block arrives, exactly one notification is emitted: the
\* TaskDisabledEvent of a call that failed, which is made inactive, or the
\* notification with the name and the result of a call that succeeded; the tag
\* of the notification is the number of the block plus the block offset of the
\* call, and the offset is not positive.  A call that is not active emits
\* nothing.
C21_OnePerActiveCall ==
    [][ \A c \in DOMAIN taskPc :
          CallStep(c) =>
            IF callActive[c]
            THEN /\ WritesOne
                 /\ clientReq.calls[c].blockOffset <= 0
                 /\ sent'[Len(sent')].tag =
                        U64(BlockNumber(curBlock) + clientReq.calls[c].blockOffset)
                 /\ \/ /\ sent'[Len(sent')].name = TaskDisabledEvent
                       /\ ~callActive'[c]
                    \/ /\ sent'[Len(sent')].name = c
                       /\ sent'[Len(sent')].text = "response"
                       /\ callActive'[c]
            ELSE sent' = sent /\ callActive' = callActive ]_vars

\* what holds of the code: an active call emits at most one notification, none
\* when its payload cannot be constructed or the client has left; the tag is
\* the sum in uint64 arithmetic
C21_CallsOfCode ==
    [][ \A c \in DOMAIN taskPc :
          CallStep(c) =>
            IF callActive[c]
            THEN /\ clientReq.calls[c].blockOffset <= 0
                 /\ \/ sent' = sent
                    \/ /\ WritesOne
                       /\ connected
                       /\ sent'[Len(sent')].tag =
                              AddOffset(BlockNumber(curBlock),
                                        clientReq.calls[c].blockOffset)
                       /\ \/ /\ sent'[Len(sent')].name = TaskDisabledEvent
                             /\ ~callActive'[c]
                          \/ /\ sent'[Len(sent')].name = c
                             /\ sent'[Len(sent')].text = "response"
                             /\ callActive'[c]
            ELSE sent' = sent /\ callActive' = callActive ]_vars

\* a call with offset -2 has run for the block of height 1 and its
\* notification is there
C21_WrapWitness ==
    /\ request.feed = OnBlockFeed
    /\ hpc \in {"wait", "loop"}
    /\ Len(sent) >= 2
    /\ sent[2].name = "a"
    /\ sent[2].ids = <<1>>
    /\ sent[2].tag.wraps = 1
\* an active call has returned for a block, the client connected, and nothing
\* was written for it
C21_SilentWitness ==
    /\ request.feed = OnBlockFeed
    /\ hpc = "wait"
    /\ connected
    /\ DOMAIN taskPc = {"a"}
    /\ taskPc["a"] = "done"
    /\ callActive["a"]
    /\ Len(sent) = 1

-----------------------------------------------------------------------------
(* Client handler: the receipts of a txReceipts subscription (SpecFanOut) *)

\* the positions in sent of the notifies of the receipt of transaction t of
\* the block id
ReceiptNotifies(id, t) ==
    {i \in 1..Len(sent) :
        /\ IsNotify(sent[i])
        /\ sent[i].name = "receipt"
        /\ sent[i].text = t
        /\ sent[i].ids = <<id>>}

\* a block is received and one fetch is started for each of its transactions
C22_OneFetchPerTx ==
    [][ (request.feed = TxReceiptsFeed /\ Len(pulled') = Len(pulled) + 1) =>
          /\ hpc = "loop"
          /\ \A t \in DOMAIN taskPc : taskPc[t] # "started"
          /\ hpc' = "wait" =>
                /\ Cardinality(DOMAIN taskPc') = pulled'[Len(pulled')].txs
                /\ \A t \in DOMAIN taskPc' : taskPc'[t] = "started" ]_vars

\* while the fetches of a block run, and after them: one notify for each
\* receipt that was obtained and sent, none for a fetch that runs, failed or
\* gave nothing, and a fetch that returns writes nothing but its own notify
C22_OneNotifyPerReceipt ==
    (request.feed = TxReceiptsFeed /\ hpc \in {"wait", "loop", "returned"}) =>
        /\ \A t \in DOMAIN taskPc :
              Cardinality(ReceiptNotifies(curBlock.id, t)) =
                  IF taskPc[t] = "done" THEN 1 ELSE 0
        /\ \A i \in 1..Len(sent) :
              IsNotify(sent[i]) =>
                  /\ sent[i].name = "receipt"
                  /\ \E j \in 1..Len(pulled) :
                        /\ sent[i].ids = <<pulled[j].id>>
                        /\ sent[i].text \in Tasks(TxReceiptsFeed, pulled[j], EmptyMap)
                  /\ \A k \in 1..Len(sent) :
                        (/\ IsNotify(sent[k])
                         /\ sent[k].ids = sent[i].ids
                         /\ sent[k].text = sent[i].text) => k = i

\* the notifies of a block are written before those of the next block
C22_BlockAfterBlock ==
    request.feed = TxReceiptsFeed =>
        \A i, j \in 1..Len(sent) :
            (i < j /\ IsNotify(sent[i]) /\ IsNotify(sent[j])) =>
                sent[i].ids[1] <= sent[j].ids[1]

C22_EmptyWitness ==
    /\ request.feed = TxReceiptsFeed
    /\ hpc = "loop"
    /\ Len(pulled) = 1
    /\ pulled[1].txs = MaxBlockTxs
    /\ taskPc["0"] = "empty"
    /\ taskPc["1"] = "done"
    /\ Len(sent) = 2

-----------------------------------------------------------------------------
(* SpecSession: one subscribe request of each kind reaches a gateway with a  *)
(* node endpoint and is served until its handler returns, with every step    *)
(* of the handler, of the feed manager and of the client.  SpecSessionLive   *)
(* adds the fairness of the handler: its goroutines run on, and a select     *)
(* with the disconnect case ready again and again takes it in the end.       *)

SessionRequests ==
    {SubscribeRequest("ok", NewTxsFeed, TRUE, <<"tx_contents", "tx_hash">>,
                      "{gas} > 21000", <<>>, mt) : mt \in BOOLEAN}
    \cup {SubscribeRequest("ok", BDNBlocksFeed, TRUE, <<"hash">>, "", <<>>, mt) :
            mt \in BOOLEAN}
    \cup {SubscribeRequest("ok", OnBlockFeed, TRUE, <<>>, "",
                           <<CallParam("a", "eth_call", "-1", "ok"),
                             CallParam("", "eth_blockNumber", "0", "ok")>>, FALSE),
          SubscribeRequest("ok", TxReceiptsFeed, TRUE, <<>>, "", <<>>, FALSE)}

InitSession ==
    /\ BridgeStarts(FALSE, EmptyChans)
    /\ FillIdle
    /\ BpIdle
    /\ CalcIdle
    /\ \E req \in SessionRequests :
          HandlerStarts(req, FanOutGateway,
                        AccountWith(GatewayAccount,
                                    [expired |-> FALSE, AllowFiltering |-> TRUE,
                                     AvailableFields |-> {"all"}]),
                        EmptyMap)

NextSession ==
    \/ HandleSubscribe
    \/ Publish
    \/ PublishError
    \/ CloseFeed
    \/ Disconnect
    \/ ProviderUnsynced
    \/ LoopDisconnect
    \/ LoopErrMsg
    \/ LoopClosed
    \/ LoopDeliver
    \/ MultiReceive
    \/ MultiDefault
    \/ MultiDisconnect
    \/ MultiClosed
    \/ FanOutStart
    \/ \E c \in DOMAIN taskPc : CallRun(c)
    \/ \E t \in DOMAIN taskPc : ReceiptRun(t)
    \/ FanOutEnd

SpecSession == InitSession /\ [][NextSession]_vars

\* the steps of the goroutines of the handler
HandlerStep ==
    \/ HandleSubscribe
    \/ LoopDisconnect
    \/ LoopErrMsg
    \/ LoopClosed
    \/ LoopDeliver
    \/ MultiReceive
    \/ MultiDefault
    \/ MultiDisconnect
    \/ MultiClosed
    \/ FanOutStart
    \/ \E c \in DOMAIN taskPc : CallRun(c)
    \/ \E t \in DOMAIN taskPc : ReceiptRun(t)
    \/ FanOutEnd

SpecSessionLive ==
    /\ SpecSession
    /\ WF_vars(HandlerStep)
    /\ SF_vars(LoopDisconnect)
    /\ SF_vars(MultiDisconnect)

-----------------------------------------------------------------------------
(* Client handler: the end of a subscription (SpecSession, SpecSessionLive) *)

\* the handler is in one of its delivery loops
InLoop == hpc \in {"loop", "multi", "drain", "wait"}

\* once Handle has returned, the subscription of the request is not registered
C23_RemovedAtReturn == hpc = "returned" => ~SubscriptionExists(subscriptions, NewID)

\* the subscription is registered as long as the handler serves it, unless the
\* feed manager removed it
C23_RegisteredInLoop ==
    [][ (InLoop /\ SubscriptionExists(subscriptions, NewID)
         /\ ~SubscriptionExists(subscriptions', NewID))
        => (hpc' = "returned" \/ (hpc' = hpc /\ ~chanOpen')) ]_vars

\* C23: every subscription a subscribe request registers is removed when its
\* handler ends.  After the client has disconnected the delivery loop, single
\* or MultiTxs, returns in the end; and on every way Handle returns after
\* FeedManager.Subscribe (disconnect, feed channel closed, message on the error
\* channel, failed notify, no synced provider, failed reply) Unsubscribe has
\* run: the subscription ID is not registered once the handler has returned.
C23_RemovedWhenHandlerEnds ==
    /\ []C23_RemovedAtReturn
    /\ C23_RegisteredInLoop
    /\ (~connected /\ hpc # "-") ~> (hpc = "returned")

\* the ways the handler has returned with the subscription gone
C23_Witness ==
    /\ request.MultiTxs
    /\ request.feed = NewTxsFeed
    /\ hpc = "returned"
    /\ ~connected
    /\ Len(pulled) = 1
    /\ Len(sent) = 1
    /\ subscriptions = EmptyMap
C23_ErrMsgWitness ==
    /\ hpc = "returned"
    /\ connected
    /\ Len(sent) = 2
    /\ sent[2].text = "feed error"
    /\ subscriptions = EmptyMap
C23_ClosedWitness ==
    /\ hpc = "returned"
    /\ connected
    /\ Len(sent) = 2
    /\ sent[2].code = InternalError
    /\ subscriptions = EmptyMap
C23_UnsyncedWitness ==
    /\ request.feed = TxReceiptsFeed
    /\ hpc = "returned"
    /\ connected
    /\ ~synced
    /\ chanOpen = FALSE
    /\ Len(pulled) = 1
    /\ subscriptions = EmptyMap
C23_ServedWitness ==
    /\ InLoop
    /\ ~connected
    /\ SubscriptionExists(subscriptions, NewID)

-----------------------------------------------------------------------------
(* Client handler: what ends a delivery loop (SpecSession) *)

\* the step ends the delivery loop: Handle returns
LoopEnds == InLoop /\ hpc' = "returned"

\* the connection-level failures: the client has left, so that a notify
\* fails, or the feed channel is closed
ConnectionFailure == ~connected \/ (feedChan = <<>> /\ ~chanOpen)

\* the handler receives a transaction it does not deliver: the filter gives an
\* error or is not satisfied, or the transaction has no fields to give
DropStep ==
    /\ InLoop
    /\ clientReq.feed \in TxFeeds
    /\ Len(pulled') = Len(pulled) + 1
    /\ LET tx == pulled'[Len(pulled')]
       IN  \/ clientReq.expr # <<>> /\ tx.eval \in {"error", "unsatisfied"}
           \/ HasTxContent(clientReq.includes) /\ tx.eval = "nofields"

\* such a transaction alone is dropped: nothing is written for it and the
\* handler stays in its loop with the subscription registered
C30_DropsOne ==
    [][ DropStep =>
          /\ sent' = sent
          /\ InLoop'
          /\ subscriptions' = subscriptions
          /\ batch' = IF hpc = "drain" THEN batch ELSE <<>> ]_vars

\* a call of an onBlock subscription that fails is made inactive and the
\* handler goes on with the block
C30_CallFailureKeepsLoop ==
    [][ \A c \in DOMAIN taskPc :
          (CallStep(c) /\ callActive[c] /\ ~callActive'[c]) =>
              /\ hpc' = "wait"
              /\ subscriptions' = subscriptions ]_vars

\* C30: the delivery loop of a subscription ends only on a connection-level
\* failure (the client has disconnected, a notify failed, the feed channel is
\* closed); a filter evaluation error, an unsatisfied filter and a failed
\* projection drop the one notification and the loop goes on; a failed call of
\* an onBlock subscription does not close the subscription.
C30_EndsAsStated ==
    /\ [][LoopEnds => ConnectionFailure]_vars
    /\ C30_DropsOne
    /\ C30_CallFailureKeepsLoop

\* the same, with the other ways the code ends the loop: a message on the error
\* channel of the subscription, which is sent to the client; a block of onBlock
\* or txReceipts received with no synced node provider; a receipt fetch of
\* txReceipts that returned an error
C30_Ends ==
    /\ [][ LoopEnds =>
             \/ ConnectionFailure
             \/ /\ hpc = "loop"
                /\ errMsgChan # <<>>
                /\ sent' = Append(sent, ErrorMsg(InvalidParams, Head(errMsgChan)))
             \/ /\ hpc = "loop"
                /\ clientReq.feed \in FanOutFeeds
                /\ feedChan # <<>>
                /\ ~synced
             \/ /\ hpc = "wait"
                /\ clientReq.feed = TxReceiptsFeed
                /\ \A t \in DOMAIN taskPc : taskPc[t] # "started"
                /\ \E t \in DOMAIN taskPc : taskPc[t] = "failed" ]_vars
    /\ C30_DropsOne
    /\ C30_CallFailureKeepsLoop

\* a transaction whose filter gave an error was dropped and the next one
\* delivered
C30_Witness ==
    /\ request.feed = NewTxsFeed
    /\ ~request.MultiTxs
    /\ hpc = "loop"
    /\ Len(pulled) = 2
    /\ pulled[1].eval = "error"
    /\ Len(sent) = 2
    /\ sent[2].ids = <<2>>
\* the same for a failed projection under MultiTxs
C30_MultiWitness ==
    /\ request.feed = NewTxsFeed
    /\ request.MultiTxs
    /\ hpc = "multi"
    /\ Len(pulled) = 2
    /\ pulled[1].eval = "nofields"
    /\ Len(sent) = 2
    /\ sent[2].ids = <<2>>
\* a call failed for the first block and the second block was served
C30_CallWitness ==
    /\ request.feed = OnBlockFeed
    /\ hpc = "loop"
    /\ Len(pulled) = 2
    /\ \E i \in 1..Len(sent) : sent[i].name = TaskDisabledEvent /\ sent[i].ids = <<1>>
    /\ \E i \in 1..Len(sent) : sent[i].name = TaskCompletedEvent /\ sent[i].ids = <<2>>
\* a receipt fetch failed and the handler has returned, the client connected
\* and the feed channel open until then
C30_FetchWitness ==
    /\ request.feed = TxReceiptsFeed
    /\ hpc = "returned"
    /\ connected
    /\ synced
    /\ \E t \in DOMAIN taskPc : taskPc[t] = "failed"

-----------------------------------------------------------------------------
(* Client handler: blxr_tx.  Handle runs once per request, each in its own   *)
(* goroutine; the requests share the pending table of the feed manager, its  *)
(* lock, and the node's message handler.                                     *)

BloxrouteAccountID == "bloXroute"
EmptyAccountID == ""
PolygonMainnetNum == "PolygonMainnet"

\* bxgateway.NetworkToBlockDuration[bxgateway.BSCMainnet], in milliseconds
blockIntervalBSC == 3000

TFPaidTx == "TFPaidTx"
TFLocalRegion == "TFLocalRegion"
TFValidatorsOnly == "TFValidatorsOnly"
TFNextValidator == "TFNextValidator"
TFDeliverToNode == "TFDeliverToNode"
TFFrontRunningProtection == "TFFrontRunningProtection"

\* a big.Int that is not negative: hi * 2^64 + lo, with lo below 2^63
BigInt(hi, lo) == [hi |-> hi, lo |-> lo]

\* big.Int.Int64: the low 64 bits of the value
Int64(x) == x.lo

\* the strings a client sends as a transaction, with what types.DecodeHex
\* and Transaction.UnmarshalBinary or rlp.DecodeBytes make of them: a string
\* that is not hex, bytes that are no transaction, and transactions of chain
\* ID 56, 1, 0 (not replay protected), 2^64 and 2^64 + 56
RawTransactions ==
    [ zz   |-> [hex |-> FALSE, decodes |-> FALSE, hash |-> Nil, ChainId |-> BigInt(0, 0)],
      ff   |-> [hex |-> TRUE, decodes |-> FALSE, hash |-> Nil, ChainId |-> BigInt(0, 0)],
      a56  |-> [hex |-> TRUE, decodes |-> TRUE, hash |-> "hA", ChainId |-> BigInt(0, 56)],
      b1   |-> [hex |-> TRUE, decodes |-> TRUE, hash |-> "hB", ChainId |-> BigInt(0, 1)],
      c0   |-> [hex |-> TRUE, decodes |-> TRUE, hash |-> "hC", ChainId |-> BigInt(0, 0)],
      d64  |-> [hex |-> TRUE, decodes |-> TRUE, hash |-> "hD", ChainId |-> BigInt(1, 0)],
      e64  |-> [hex |-> TRUE, decodes |-> TRUE, hash |-> "hE", ChainId |-> BigInt(1, 56)] ]

DecodeHex(transaction) == RawTransactions[transaction].hex
ethTx(transaction) == RawTransactions[transaction]

\* FeedManager.nextValidatorMap: nil, or the wallets from the oldest to the
\* newest
NilMap == [isNil |-> TRUE, wallets |-> <<>>]
OrderedMap(wallets) == [isNil |-> FALSE, wallets |-> wallets]

\* bxmessage.NewTx, and a transaction nobody built
NoWallets == <<"", "">>
NewTx(hash, networkNum, flags, accountID) ==
    [hash |-> hash, networkNum |-> networkNum, flags |-> flags,
     accountID |-> accountID, fallback |-> 0, walletID |-> NoWallets]
NilTx == NewTx(Nil, Nil, {}, Nil)

\* ValidateTxFromExternalSource, the flags of the transaction
TxFlagsBoth(validatorsOnly, nextValidator, frontRunningProtection) ==
    {TFPaidTx, TFLocalRegion}
        \cup (IF validatorsOnly THEN {TFValidatorsOnly} ELSE {})
        \cup (IF nextValidator THEN {TFNextValidator} ELSE {})
        \cup (IF ~validatorsOnly /\ ~nextValidator THEN {TFDeliverToNode} ELSE {})
        \cup (IF frontRunningProtection THEN {TFFrontRunningProtection} ELSE {})
TxFlags(validatorsOnly, nextValidator, frontRunningProtection) ==
    {TFPaidTx, TFLocalRegion}
        \cup (IF validatorsOnly THEN {TFValidatorsOnly}
              ELSE IF nextValidator THEN {TFNextValidator}
              ELSE {TFDeliverToNode})
        \cup (IF frontRunningProtection THEN {TFFrontRunningProtection} ELSE {})

\* ValidateTxFromExternalSource, the chain ID check
ChainIDMismatchNever(chainId, gatewayChainID) == FALSE
ChainIDMismatch(chainId, gatewayChainID) ==
    /\ Int64(chainId) # 0
    /\ gatewayChainID # 0
    /\ Int64(chainId) # gatewayChainID

\* what ProcessNextValidatorTx and ValidateTxFromExternalSource return: the
\* transaction, whether it waits in the pending table, the error, and the
\* pending table
Validated(tx, pending, err, table) ==
    [tx |-> tx, pending |-> pending, err |-> err, table |-> table]
NotValidated == Validated(NilTx, FALSE, Nil, EmptyMap)

\* PendingNextValidatorTxInfo
PendingNextValidatorTxInfo(tx, fallback, time, source) ==
    [Tx |-> tx, Fallback |-> fallback, TimeOfRequest |-> time, Source |-> source]

\* table[key] = value of a Go map
Put(table, key, value) ==
    [k \in DOMAIN table \cup {key} |-> IF k = key THEN value ELSE table[k]]
\* delete(table, key)
Delete(table, key) == [k \in DOMAIN table \ {key} |-> table[k]]

\* ProcessNextValidatorTx, the decision of a BSC transaction whose first
\* validator is not accessible: TRUE when it is sent at once
SendsAtOnceAlways(fallback) == TRUE
SendsAtOnce(fallback) == fallback # 0 /\ fallback < blockIntervalBSC

ProcessNextValidatorTx(tx, fallback, nextValidatorMap, validatorStatusMap, networkNum, source, table, time) ==
    IF networkNum # BSCMainnetNum /\ networkNum # PolygonMainnetNum
    THEN Validated(tx, FALSE, "next_validator is only supported on BSC and Polygon", table)
    ELSE IF nextValidatorMap.isNil
    THEN Validated(tx, FALSE, "failed to send next validator tx", table)
    ELSE IF Len(nextValidatorMap.wallets) = 0
    THEN Validated([tx EXCEPT !.fallback = fallback], FALSE,
                   "issue fetching the epoch block", table)
    ELSE LET wallets == nextValidatorMap.wallets
             n2 == wallets[Len(wallets)]
             hasN1 == Len(wallets) > 1
             n1Wallet == IF hasN1 THEN wallets[Len(wallets) - 1] ELSE ""
             n1ValidatorAccessible ==
                 /\ hasN1
                 /\ n1Wallet \in DOMAIN validatorStatusMap
                 /\ validatorStatusMap[n1Wallet]
             withFallback == [tx EXCEPT !.fallback = fallback]
         IN  IF networkNum = BSCMainnetNum
             THEN IF n1ValidatorAccessible
                  THEN Validated([withFallback EXCEPT !.walletID[1] = n1Wallet],
                                 FALSE, Nil, table)
                  ELSE IF SendsAtOnce(fallback)
                  THEN Validated(withFallback, FALSE, Nil, table)
                  ELSE Validated(withFallback, TRUE, Nil,
                                 Put(table, tx.hash,
                                     PendingNextValidatorTxInfo(withFallback, fallback,
                                                                time, source)))
             ELSE IF hasN1
                  THEN Validated([withFallback EXCEPT !.walletID = <<n1Wallet, n2>>],
                                 FALSE, Nil, table)
                  ELSE Validated([withFallback EXCEPT !.walletID[1] = n2],
                                 FALSE, Nil, table)

\* what the node's websocket provider says of a transaction sent for
\* validation: no synced provider, accepted, already known, refused
NodeAnswers == {"no provider", "ok", "already known", "nonce too low"}

ValidateTxFromExternalSource(transaction, validatorsOnly, gatewayChainID, nextValidator, fallback, nextValidatorMap, validatorStatusMap, networkNum, accountID, nodeValidationRequested, nodeAnswer, source, table, frontRunningProtection, time) ==
    LET eth == ethTx(transaction)
        tx == NewTx(eth.hash, networkNum,
                    TxFlags(validatorsOnly, nextValidator, frontRunningProtection),
                    accountID)
        routed == IF nextValidator
                  THEN ProcessNextValidatorTx(tx, fallback, nextValidatorMap,
                                              validatorStatusMap, networkNum,
                                              source, table, time)
                  ELSE Validated(tx, FALSE, Nil, table)
    IN  IF ~eth.decodes
        THEN Validated(NilTx, FALSE, "typed transaction too short", table)
        ELSE IF ChainIDMismatch(eth.ChainId, gatewayChainID)
        THEN Validated(NilTx, FALSE, "chainID mismatch", table)
        ELSE IF routed.err # Nil
        THEN Validated(NilTx, FALSE, routed.err, routed.table)
        ELSE IF routed.pending
        THEN routed
        ELSE IF /\ nodeValidationRequested
                /\ TFNextValidator \notin routed.tx.flags
                /\ TFValidatorsOnly \notin routed.tx.flags
        THEN IF nodeAnswer = "no provider"
             THEN Validated(NilTx, FALSE, "no synced WS provider available",
                            routed.table)
             ELSE IF nodeAnswer \notin {"ok", "already known"}
             THEN Validated(NilTx, FALSE, "failed node validation", routed.table)
             ELSE routed
        ELSE routed

\* a blxr_tx request as Handle finds it
TxRequest(account, req) ==
    [account |-> account, req |-> req, pc |-> "new", ws |-> Nil,
     res |-> NotValidated, out |-> <<>>]

\* LockPendingNextValidatorTxs returns when nobody holds the lock
CanLockAlways(holder) == TRUE
CanLock(holder) == holder = "free"

\* node.HandleMsg(tx, ws, RunForeground), as the node saw it: the transaction,
\* the account of its connection, the way it came, and the pending entry it
\* was taken from, and the request it came with
Handled(tx, account, via, entry, by) ==
    [tx |-> tx, account |-> account, via |-> via, entry |-> entry, by |-> by]

\* Handle(RPCTx) before handleSingleTransaction: the account of the
\* connection, the parameters, the sender of a cloud request.  The client
\* stays connected.
TxHandle(i) ==
    /\ sub[i].pc = "new"
    /\ LET r == sub[i]
           differs == txGateway.AccountID # r.account
       IN  sub' = [sub EXCEPT ![i] =
                IF differs
                THEN IF txGateway.AccountID = BloxrouteAccountID
                     THEN [r EXCEPT !.pc = "returned"]
                     ELSE [r EXCEPT !.pc = "returned",
                                    !.out = SendErrorMsg(r.out, TRUE, InvalidRequest,
                                                "blxr_tx is not allowed")]
                ELSE IF ~r.req.paramsOk
                THEN [r EXCEPT !.pc = "returned",
                               !.out = SendErrorMsg(r.out, TRUE, InvalidParams,
                                                    "unmarshal error")]
                ELSE IF /\ txGateway.AccountID = BloxrouteAccountID
                        /\ r.req.OriginalSenderAccountID = EmptyAccountID
                THEN [r EXCEPT !.pc = "returned",
                               !.out = SendErrorMsg(r.out, TRUE, InvalidRequest,
                                                    "failed to send transaction")]
                ELSE [r EXCEPT !.pc = "lock",
                               !.ws = IF r.account = BloxrouteAccountID
                                      THEN r.req.OriginalSenderAccountID
                                      ELSE r.account]]
    /\ UNCHANGED <<txGateway, handled, pendingTxs, timers, mutex, nStashed>>
    /\ UNCHANGED <<bridgeVars, fillVars, bpVars, calcVars, chVars, reqVars,
                   loopVars, fanVars, wsVars>>

\* handleSingleTransaction: LockPendingNextValidatorTxs
TxLock(i) ==
    /\ sub[i].pc = "lock"
    /\ CanLock(mutex)
    /\ mutex' = i
    /\ sub' = [sub EXCEPT ![i].pc = "locked"]
    /\ UNCHANGED <<txGateway, handled, pendingTxs, timers, nStashed>>
    /\ UNCHANGED <<bridgeVars, fillVars, bpVars, calcVars, chVars, reqVars,
                   loopVars, fanVars, wsVars>>

\* handleSingleTransaction with the lock: a string that is not hex is answered
\* and the function returns, the lock still held; any other string is
\* validated and the lock released
TxValidate(i) ==
    /\ sub[i].pc = "locked"
    /\ LET r == sub[i]
       IN  IF ~DecodeHex(r.req.Transaction)
           THEN /\ sub' = [sub EXCEPT ![i] =
                        [r EXCEPT !.pc = "returned",
                                  !.out = SendErrorMsg(r.out, TRUE, InvalidParams,
                                                       "invalid hex")]]
                /\ UNCHANGED <<pendingTxs, mutex, nStashed>>
           ELSE \E nodeAnswer \in NodeAnswers :
                LET v == ValidateTxFromExternalSource(
                             r.req.Transaction, r.req.ValidatorsOnly,
                             txGateway.chainID, r.req.NextValidator, r.req.Fallback,
                             txGateway.nextValidatorMap, txGateway.validatorStatusMap,
                             txGateway.networkNum, r.ws, r.req.NodeValidation,
                             nodeAnswer, r.ws, pendingTxs,
                             r.req.FrontRunningProtection, nStashed + 1)
                IN  /\ sub' = [sub EXCEPT ![i] =
                            [r EXCEPT !.pc = "validated",
                                      !.res = [v EXCEPT !.table = EmptyMap]]]
                    /\ pendingTxs' = v.table
                    /\ nStashed' = IF v.pending THEN nStashed + 1 ELSE nStashed
                    /\ mutex' = "free"
    /\ UNCHANGED <<txGateway, handled, timers>>
    /\ UNCHANGED <<bridgeVars, fillVars, bpVars, calcVars, chVars, reqVars,
                   loopVars, fanVars, wsVars>>

\* time.AfterFunc(fallback ms, ...): a timer that has not fired
Timer(tx, ws, fallback, by) ==
    [tx |-> tx, ws |-> ws, duration |-> fallback, pc |-> "armed", seen |-> 0,
     by |-> by]

\* handleSingleTransaction after the lock, and the reply of Handle(RPCTx):
\* the error of the validation is answered; a transaction that does not wait
\* goes to the node, and an error of the node ends the request without an
\* answer; for a transaction that waits with a fallback, a timer is armed
TxSend(i) ==
    /\ sub[i].pc = "validated"
    /\ LET r == sub[i]
           v == r.res
       IN  IF v.err # Nil
           THEN /\ sub' = [sub EXCEPT ![i] =
                        [r EXCEPT !.pc = "returned",
                                  !.out = SendErrorMsg(r.out, TRUE, InvalidParams,
                                                       v.err)]]
                /\ UNCHANGED <<handled, timers>>
           ELSE IF ~v.pending
           THEN /\ handled' = Append(handled, Handled(v.tx, r.ws, "submit", 0, i))
                /\ \E ok \in BOOLEAN :
                      sub' = [sub EXCEPT ![i] =
                          [r EXCEPT !.pc = "returned",
                                    !.out = IF ok
                                            THEN Write(r.out, TRUE, Result(v.tx.hash))
                                            ELSE r.out]]
                /\ UNCHANGED timers
           ELSE /\ timers' = IF r.req.Fallback # 0
                             THEN Append(timers, Timer(v.tx, r.ws, r.req.Fallback, i))
                             ELSE timers
                /\ sub' = [sub EXCEPT ![i] =
                        [r EXCEPT !.pc = "returned",
                                  !.out = Write(r.out, TRUE, Result(v.tx.hash))]]
                /\ UNCHANGED handled
    /\ UNCHANGED <<txGateway, pendingTxs, mutex, nStashed>>
    /\ UNCHANGED <<bridgeVars, fillVars, bpVars, calcVars, chVars, reqVars,
                   loopVars, fanVars, wsVars>>

\* the function of the timer: LockPendingNextValidatorTxs
TimerLock(k) ==
    /\ timers[k].pc = "armed"
    /\ CanLock(mutex)
    /\ mutex' = "timer"
    /\ timers' = [timers EXCEPT ![k].pc = "locked"]
    /\ UNCHANGED <<txGateway, sub, handled, pendingTxs, nStashed>>
    /\ UNCHANGED <<bridgeVars, fillVars, bpVars, calcVars, chVars, reqVars,
                   loopVars, fanVars, wsVars>>

\* the function of the timer: is the hash of the transaction in the table
TimerCheck(k) ==
    /\ timers[k].pc = "locked"
    /\ LET hash == timers[k].tx.hash
       IN  timers' = [timers EXCEPT ![k] =
               IF hash \in DOMAIN pendingTxs
               THEN [@ EXCEPT !.pc = "found", !.seen = pendingTxs[hash].TimeOfRequest]
               ELSE [@ EXCEPT !.pc = "unlock"]]
    /\ UNCHANGED <<txGateway, sub, handled, pendingTxs, mutex, nStashed>>
    /\ UNCHANGED <<bridgeVars, fillVars, bpVars, calcVars, chVars, reqVars,
                   loopVars, fanVars, wsVars>>

\* the function of the timer, the entry found: the entry is deleted, the
\* transaction loses the flag and the fallback and goes to the node
TimerSubmit(k) ==
    /\ timers[k].pc = "found"
    /\ LET t == timers[k]
           tx == [t.tx EXCEPT !.flags = @ \ {TFNextValidator}, !.fallback = 0]
       IN  /\ pendingTxs' = Delete(pendingTxs, t.tx.hash)
           /\ handled' = Append(handled, Handled(tx, t.ws, "fallback", t.seen, t.by))
           /\ timers' = [timers EXCEPT ![k] = [t EXCEPT !.pc = "unlock", !.tx = tx]]
    /\ UNCHANGED <<txGateway, sub, mutex, nStashed>>
    /\ UNCHANGED <<bridgeVars, fillVars, bpVars, calcVars, chVars, reqVars,
                   loopVars, fanVars, wsVars>>

\* the function of the timer: the deferred UnlockPendingNextValidatorTxs
TimerUnlock(k) ==
    /\ timers[k].pc = "unlock"
    /\ mutex' = "free"
    /\ timers' = [timers EXCEPT ![k].pc = "done"]
    /\ UNCHANGED <<txGateway, sub, handled, pendingTxs, nStashed>>
    /\ UNCHANGED <<bridgeVars, fillVars, bpVars, calcVars, chVars, reqVars,
                   loopVars, fanVars, wsVars>>

\* the gateway, once the validator is accessible, takes a waiting transaction
\* out of the table and sends it, holding the lock
Reevaluate(hash) ==
    /\ hash \in DOMAIN pendingTxs
    /\ CanLock(mutex)
    /\ LET info == pendingTxs[hash]
       IN  handled' = Append(handled, Handled(info.Tx, info.Source, "reevaluation",
                                              info.TimeOfRequest, "gateway"))
    /\ pendingTxs' = Delete(pendingTxs, hash)
    /\ UNCHANGED <<txGateway, sub, timers, mutex, nStashed>>
    /\ UNCHANGED <<bridgeVars, fillVars, bpVars, calcVars, chVars, reqVars,
                   loopVars, fanVars, wsVars>>

\* the gateways a transaction is submitted to: the account of the gateway or
\* of the cloud proxy; a network and its chain ID, one of them not configured;
\* the validators the gateway knows, and which of them are accessible
TxNetworks ==
    { [networkNum |-> BSCMainnetNum, chainID |-> 56],
      [networkNum |-> BSCMainnetNum, chainID |-> 0],
      [networkNum |-> PolygonMainnetNum, chainID |-> 137],
      [networkNum |-> MainnetNum, chainID |-> 1] }
TxValidators ==
    { [nextValidatorMap |-> NilMap, validatorStatusMap |-> EmptyMap],
      [nextValidatorMap |-> OrderedMap(<<>>), validatorStatusMap |-> EmptyMap],
      [nextValidatorMap |-> OrderedMap(<<"w1">>), validatorStatusMap |-> [w \in {"w1"} |-> TRUE]],
      [nextValidatorMap |-> OrderedMap(<<"w1", "w2">>), validatorStatusMap |-> EmptyMap],
      [nextValidatorMap |-> OrderedMap(<<"w1", "w2">>), validatorStatusMap |-> [w \in {"w1"} |-> TRUE]],
      [nextValidatorMap |-> OrderedMap(<<"w1", "w2">>), validatorStatusMap |-> [w \in {"w1"} |-> FALSE]] }
TxGateway(account, network, validators) ==
    [AccountID |-> account, chainID |-> network.chainID,
     networkNum |-> network.networkNum,
     nextValidatorMap |-> validators.nextValidatorMap,
     validatorStatusMap |-> validators.validatorStatusMap]
TxGateways ==
    {TxGateway(a, n, v) : a \in {GatewayAccount, BloxrouteAccountID},
                          n \in TxNetworks, v \in TxValidators}

\* the fallback of a request, in milliseconds: none, shorter than a block of
\* BSC, a block, longer, the largest uint16
Fallbacks == {0, 1, blockIntervalBSC - 1, blockIntervalBSC, 65535}

\* jsonrpc.RPCTxPayload
RPCTxPayload(transaction, validatorsOnly, nextValidator, fallback, nodeValidation, frontRunningProtection, originalSender) ==
    [paramsOk |-> TRUE, Transaction |-> transaction,
     ValidatorsOnly |-> validatorsOnly, NextValidator |-> nextValidator,
     Fallback |-> fallback, NodeValidation |-> nodeValidation,
     FrontRunningProtection |-> frontRunningProtection,
     OriginalSenderAccountID |-> originalSender]
TxPayloads ==
    {RPCTxPayload(t, vo, nv, fb, val, frp, os) :
        t \in DOMAIN RawTransactions, vo \in BOOLEAN, nv \in BOOLEAN,
        fb \in Fallbacks, val \in BOOLEAN, frp \in BOOLEAN,
        os \in {EmptyAccountID, OtherAccount}}
\* parameters json.Unmarshal refuses
BadPayload ==
    [RPCTxPayload("a56", FALSE, FALSE, 0, FALSE, FALSE, OtherAccount)
        EXCEPT !.paramsOk = FALSE]

\* the requests start, nothing submitted yet
SubmitStarts(gw, requests) ==
    /\ txGateway = gw
    /\ sub = requests
    /\ handled = <<>>
    /\ pendingTxs = EmptyMap
    /\ timers = <<>>
    /\ mutex = "free"
    /\ nStashed = 0

(* SpecSubmit: one blxr_tx request, for every gateway, account and payload   *)
(* of the model.  A connection of another account sends one transaction, as  *)
(* does a request json.Unmarshal refuses; only the cloud service names an    *)
(* original sender; a request that asks for no validator names no fallback.  *)
SubmitPayloads(gw, account) ==
    IF account # gw.AccountID
    THEN {RPCTxPayload("a56", FALSE, FALSE, 0, FALSE, FALSE, os) :
              os \in {EmptyAccountID, OtherAccount}}
    ELSE {BadPayload} \cup
         {p \in TxPayloads :
              /\ gw.AccountID # BloxrouteAccountID
                     => p.OriginalSenderAccountID = EmptyAccountID
              /\ ~p.NextValidator => p.Fallback = 0}

InitSubmit ==
    /\ BridgeStarts(FALSE, EmptyChans)
    /\ FillIdle
    /\ BpIdle
    /\ CalcIdle
    /\ HandlerIdle
    /\ UpgradeIdle
    /\ \E gw \in TxGateways :
       \E account \in {GatewayAccount, OtherAccount, BloxrouteAccountID} :
       \E p \in SubmitPayloads(gw, account) :
          SubmitStarts(gw, [i \in {"r1"} |-> TxRequest(account, p)])

NextSubmit ==
    \/ \E i \in DOMAIN sub : TxHandle(i)
    \/ \E i \in DOMAIN sub : TxLock(i)
    \/ \E i \in DOMAIN sub : TxValidate(i)
    \/ \E i \in DOMAIN sub : TxSend(i)
    \/ \E k \in DOMAIN timers : TimerLock(k)
    \/ \E k \in DOMAIN timers : TimerCheck(k)
    \/ \E k \in DOMAIN timers : TimerSubmit(k)
    \/ \E k \in DOMAIN timers : TimerUnlock(k)
    \/ \E hash \in DOMAIN pendingTxs : Reevaluate(hash)

SpecSubmit == InitSubmit /\ [][NextSubmit]_vars

-----------------------------------------------------------------------------
(* C24: the account of the connection and blxr_tx *)

\* what node.HandleMsg got from request i, by any way
HandledOf(i) == {j \in DOMAIN handled : handled[j].by = i}

\* Handle(RPCTx) refused request i for its account
RefusedForAccount(i) ==
    /\ sub[i].pc = "returned"
    /\ sub[i].out = <<ErrorMsg(InvalidRequest, "blxr_tx is not allowed")>>
    /\ HandledOf(i) = {}

\* Handle(RPCTx) let request i through to handleSingleTransaction
Permitted(i) == sub[i].pc # "new" /\ sub[i].ws # Nil

\* C24: a blxr_tx request of a connection whose account is not the account of
\* the gateway gets an InvalidRequest error and no transaction of it reaches
\* the node, unless the gateway is the cloud proxy of bloXroute: there the
\* request, well formed and naming its sender, is let through; a request of
\* the gateway's own account is never refused for its account.
C24_AccountGate ==
    \A i \in DOMAIN sub :
        sub[i].pc # "new" =>
            IF sub[i].account = txGateway.AccountID
            THEN ~RefusedForAccount(i)
            ELSE IF txGateway.AccountID # BloxrouteAccountID
            THEN RefusedForAccount(i)
            ELSE (/\ sub[i].req.paramsOk
                  /\ sub[i].req.OriginalSenderAccountID # EmptyAccountID)
                 => Permitted(i)

\* what holds of the code: a request of another account is never let through,
\* no transaction of it reaches the node, and on the cloud proxy nothing is
\* written to the connection
C24_GateOfCode ==
    \A i \in DOMAIN sub :
        sub[i].pc # "new" /\ sub[i].account # txGateway.AccountID =>
            /\ sub[i].pc = "returned"
            /\ ~Permitted(i)
            /\ HandledOf(i) = {}
            /\ IF txGateway.AccountID = BloxrouteAccountID
               THEN sub[i].out = <<>>
               ELSE RefusedForAccount(i)

\* the request of a customer's connection to the cloud proxy, with a sender
\* and a transaction of the gateway's chain, has returned without a word
C24_SilentWitness ==
    \E i \in DOMAIN sub :
        /\ txGateway.AccountID = BloxrouteAccountID
        /\ sub[i].account = OtherAccount
        /\ sub[i].req.OriginalSenderAccountID = OtherAccount
        /\ sub[i].pc = "returned"
        /\ sub[i].out = <<>>

\* the request of another account to a gateway of a customer is refused
C24_RefusedWitness ==
    \E i \in DOMAIN sub :
        /\ txGateway.AccountID = GatewayAccount
        /\ sub[i].account = OtherAccount
        /\ RefusedForAccount(i)

-----------------------------------------------------------------------------
(* C25: the chain ID of a submitted transaction *)

\* request i went through ValidateTxFromExternalSource with a transaction
\* that decodes
WasValidated(i) ==
    /\ sub[i].ws # Nil
    /\ sub[i].pc \in {"validated", "returned"}
    /\ ethTx(sub[i].req.Transaction).decodes

\* the chain ID of the transaction of request i
ChainIdOf(i) == ethTx(sub[i].req.Transaction).ChainId

\* the two chain IDs are not zero and are not the same number
ChainIDsDiffer(chainId, gatewayChainID) ==
    /\ chainId # BigInt(0, 0)
    /\ gatewayChainID # 0
    /\ chainId # BigInt(0, gatewayChainID)

\* request i was answered with the chain ID error and with no hash, nothing
\* of it went to the node or into the pending table
RefusedForChainID(i) ==
    /\ sub[i].res.err = "chainID mismatch"
    /\ sub[i].pc = "returned"
           => sub[i].out = <<ErrorMsg(InvalidParams, "chainID mismatch")>>
    /\ \A n \in DOMAIN sub[i].out : sub[i].out[n].kind # "result"
    /\ HandledOf(i) = {}
    /\ \A h \in DOMAIN pendingTxs : pendingTxs[h].TimeOfRequest = 0
    /\ nStashed = 0

\* C25: a transaction whose chain ID and the gateway's chain ID are both not
\* zero and differ is answered with an error that says "chainID mismatch", is
\* never handed to the node, never put into the pending table, and no hash is
\* returned; when one of the chain IDs is zero the check refuses nothing.
C25_ChainID ==
    \A i \in DOMAIN sub :
        WasValidated(i) =>
            IF ChainIDsDiffer(ChainIdOf(i), txGateway.chainID)
            THEN RefusedForChainID(i)
            ELSE sub[i].res.err # "chainID mismatch"

\* what holds of the code: the same, for the chain IDs below 2^63
C25_ChainIDOfCode ==
    \A i \in DOMAIN sub :
        WasValidated(i) /\ ChainIdOf(i).hi = 0 =>
            IF ChainIDsDiffer(ChainIdOf(i), txGateway.chainID)
            THEN RefusedForChainID(i)
            ELSE sub[i].res.err # "chainID mismatch"

\* a transaction of chain 2^64 + 56 went to the node of a gateway of chain 56
C25_TruncWitness ==
    \E i \in DOMAIN sub :
        /\ WasValidated(i)
        /\ ChainIdOf(i) = BigInt(1, 56)
        /\ txGateway.chainID = 56
        /\ HandledOf(i) # {}

\* a transaction of chain 1 was refused by a gateway of chain 56
C25_MismatchWitness ==
    \E i \in DOMAIN sub :
        /\ WasValidated(i)
        /\ ChainIdOf(i) = BigInt(0, 1)
        /\ txGateway.chainID = 56
        /\ sub[i].pc = "returned"
        /\ RefusedForChainID(i)

\* a transaction without a chain ID went to the node of a gateway of chain 56
C25_ZeroWitness ==
    \E i \in DOMAIN sub :
        /\ WasValidated(i)
        /\ ChainIdOf(i) = BigInt(0, 0)
        /\ txGateway.chainID = 56
        /\ HandledOf(i) # {}

-----------------------------------------------------------------------------
(* C26: the flags of a submitted transaction *)

\* the transaction ValidateTxFromExternalSource built for request i
BuiltTx(i) ==
    /\ sub[i].ws # Nil
    /\ sub[i].pc \in {"validated", "returned"}
    /\ sub[i].res.tx # NilTx

\* the flags the options of a request ask for
FlagsAsked(req) ==
    {TFPaidTx, TFLocalRegion}
        \cup {IF req.ValidatorsOnly THEN TFValidatorsOnly
              ELSE IF req.NextValidator THEN TFNextValidator
              ELSE TFDeliverToNode}
        \cup {f \in {TFFrontRunningProtection} : req.FrontRunningProtection}

RoutingFlags == {TFValidatorsOnly, TFNextValidator, TFDeliverToNode}

\* C26: the Tx built for a submission carries PaidTx and LocalRegion, exactly
\* one of ValidatorsOnly, NextValidator and DeliverToNode (ValidatorsOnly when
\* asked, else NextValidator when asked, else DeliverToNode), and
\* FrontRunningProtection exactly when it was asked; this is the Tx the node
\* gets from the request itself.
C26_Flags ==
    /\ \A i \in DOMAIN sub :
          BuiltTx(i) =>
              LET flags == sub[i].res.tx.flags
              IN  /\ {TFPaidTx, TFLocalRegion} \subseteq flags
                  /\ Cardinality(flags \cap RoutingFlags) = 1
                  /\ flags = FlagsAsked(sub[i].req)
                  /\ TFFrontRunningProtection \in flags
                         <=> sub[i].req.FrontRunningProtection
    /\ \A j \in DOMAIN handled :
          handled[j].via = "submit" =>
              handled[j].tx.flags = FlagsAsked(sub[handled[j].by].req)

\* a transaction asked for both validators only and the next validator, with
\* front running protection, was built
C26_Witness ==
    \E i \in DOMAIN sub :
        /\ BuiltTx(i)
        /\ sub[i].req.ValidatorsOnly
        /\ sub[i].req.NextValidator
        /\ sub[i].req.FrontRunningProtection
        /\ HandledOf(i) # {}

\* every combination of the three options was built
C26_NextWitness ==
    \E i \in DOMAIN sub :
        /\ BuiltTx(i)
        /\ ~sub[i].req.ValidatorsOnly
        /\ sub[i].req.NextValidator
        /\ TFNextValidator \in sub[i].res.tx.flags
C26_DeliverWitness ==
    \E i \in DOMAIN sub :
        /\ BuiltTx(i)
        /\ ~sub[i].req.ValidatorsOnly
        /\ ~sub[i].req.NextValidator
        /\ ~sub[i].req.FrontRunningProtection
        /\ HandledOf(i) # {}

-----------------------------------------------------------------------------
(* C27: the next validator of BSC *)

\* request i asked for the next validator of BSC, on a gateway that knows a
\* newest validator, and handleSingleTransaction has returned
RoutedOnBSC(i) ==
    /\ BuiltTx(i)
    /\ sub[i].pc = "returned"
    /\ sub[i].req.NextValidator
    /\ txGateway.networkNum = BSCMainnetNum

\* the wallet of the second newest validator, "" when there is none
N1Wallet ==
    LET wallets == txGateway.nextValidatorMap.wallets
    IN  IF Len(wallets) > 1 THEN wallets[Len(wallets) - 1] ELSE ""

\* the second newest validator is marked accessible
N1Accessible ==
    /\ N1Wallet \in DOMAIN txGateway.validatorStatusMap
    /\ txGateway.validatorStatusMap[N1Wallet]

\* the request itself handed its transaction to the node
SubmittedNow(i) == \E j \in HandledOf(i) : handled[j].via = "submit"

\* the transaction of request i was put into the pending table
Stashed(i) == sub[i].res.pending

\* the timers request i armed
TimersOf(i) == {k \in DOMAIN timers : timers[k].by = i}

\* decision one: the wallet of n1 is set and the transaction submitted
DecisionWallet(i) ==
    /\ SubmittedNow(i)
    /\ \A j \in HandledOf(i) : handled[j].tx.walletID = <<N1Wallet, "">>
    /\ ~Stashed(i)
    /\ TimersOf(i) = {}

\* decision two: the transaction is sent at once, as it was built
DecisionSend(i) ==
    /\ SubmittedNow(i)
    /\ \A j \in HandledOf(i) :
          /\ handled[j].tx.walletID = NoWallets
          /\ handled[j].tx.flags = FlagsAsked(sub[i].req)
    /\ ~Stashed(i)
    /\ TimersOf(i) = {}

\* decision three: the transaction is put into the pending table and not
\* submitted by the request
DecisionStash(i) ==
    /\ Stashed(i)
    /\ ~SubmittedNow(i)
    /\ nStashed > 0

\* a timer of the fallback of request i was armed
TimerArmed(i) ==
    /\ Cardinality(TimersOf(i)) = 1
    /\ \A k \in TimersOf(i) : timers[k].duration = sub[i].req.Fallback

C27_WalletWitness ==
    \E i \in DOMAIN sub :
        /\ RoutedOnBSC(i)
        /\ N1Accessible
        /\ DecisionWallet(i)
        /\ N1Wallet = "w1"
C27_SendWitness ==
    \E i \in DOMAIN sub :
        /\ RoutedOnBSC(i)
        /\ ~N1Accessible
        /\ sub[i].req.Fallback = blockIntervalBSC - 1
        /\ DecisionSend(i)
C27_StashWitness ==
    \E i \in DOMAIN sub :
        /\ RoutedOnBSC(i)
        /\ ~N1Accessible
        /\ sub[i].req.Fallback = blockIntervalBSC
        /\ DecisionStash(i)
        /\ TimerArmed(i)

-----------------------------------------------------------------------------
(* SpecPending: up to MaxRequests blxr_tx requests at a time on a gateway of *)
(* BSC whose second newest validator is not accessible, each asking for the  *)
(* next validator: the same transaction or another one, a string that is not *)
(* hex, without a fallback, with a short and with a long one.  The requests, *)
(* their timers and the gateway's own removal interleave freely.             *)

RequestIDs == <<"r1", "r2", "r3">>

PendingGateway ==
    TxGateway(GatewayAccount, [networkNum |-> BSCMainnetNum, chainID |-> 56],
              [nextValidatorMap |-> OrderedMap(<<"w1", "w2">>),
               validatorStatusMap |-> [w \in {"w1"} |-> FALSE]])

PendingPayloads ==
    {RPCTxPayload(t, FALSE, TRUE, fb, FALSE, FALSE, EmptyAccountID) :
        t \in {"a56", "c0", "zz"},
        fb \in {0, blockIntervalBSC - 1, blockIntervalBSC}}

InitPending ==
    /\ BridgeStarts(FALSE, EmptyChans)
    /\ FillIdle
    /\ BpIdle
    /\ CalcIdle
    /\ HandlerIdle
    /\ UpgradeIdle
    /\ \E requests \in [{RequestIDs[n] : n \in 1..MaxRequests} -> PendingPayloads] :
          SubmitStarts(PendingGateway,
                       [i \in DOMAIN requests |->
                           TxRequest(GatewayAccount, requests[i])])

SpecPending == InitPending /\ [][NextSubmit]_vars

-----------------------------------------------------------------------------
(* C28: the fallback timer and the pending table *)

\* the calls of node.HandleMsg the timers made
FallbackSends == {j \in DOMAIN handled : handled[j].via = "fallback"}

\* the timers that are inside the function of time.AfterFunc, past the lock
TimersInside == {k \in DOMAIN timers : timers[k].pc \in {"locked", "found", "unlock"}}

C28_OncePerEntry ==
    /\ \A j \in FallbackSends :
          /\ handled[j].entry > 0
          /\ TFNextValidator \notin handled[j].tx.flags
          /\ handled[j].tx.fallback = 0
    /\ \A j1, j2 \in FallbackSends :
          handled[j1].entry = handled[j2].entry => j1 = j2
    /\ \A j1 \in FallbackSends : \A j2 \in DOMAIN handled :
          handled[j2].via = "reevaluation" => handled[j1].entry # handled[j2].entry
    /\ \A k \in DOMAIN timers :
          timers[k].pc \in {"unlock", "done"} /\ timers[k].seen = 0 =>
              \A j \in FallbackSends : handled[j].by # timers[k].by

C28_UnderMutex ==
    /\ Cardinality(TimersInside) <= 1
    /\ TimersInside # {} => mutex = "timer"

\* a step in which a timer hands a transaction to the node takes its entry
\* out of the table, the lock held
C28_RemovesAndSubmits ==
    \A j \in DOMAIN handled' :
        j \notin DOMAIN handled /\ handled'[j].via = "fallback" =>
            /\ mutex = "timer"
            /\ handled'[j].tx.hash \in DOMAIN pendingTxs
            /\ handled'[j].tx.hash \notin DOMAIN pendingTxs'
            /\ pendingTxs[handled'[j].tx.hash].TimeOfRequest = handled'[j].entry

\* C28: a timer submits its transaction, the NextValidator flag cleared, only
\* if the entry of the transaction is in the pending table, and removes the
\* entry and submits with the lock of the table held; a timer that finds no
\* entry submits nothing.  Whatever the interleaving of timers, requests and
\* the gateway's removal, an entry of the table is handed to the node at most
\* once by a timer, and never by a timer once it was removed otherwise.
C28_NoDoubleSend ==
    /\ [](C28_OncePerEntry /\ C28_UnderMutex)
    /\ [][C28_RemovesAndSubmits]_vars

\* two requests stashed the same transaction, one timer sent it and the
\* other, finding no entry, sent nothing
C28_Witness ==
    /\ Len(timers) = 2
    /\ \A k \in DOMAIN timers : timers[k].pc = "done"
    /\ timers[1].tx.hash = timers[2].tx.hash
    /\ Cardinality(FallbackSends) = 1
    /\ pendingTxs = EmptyMap

\* the gateway removed the entry before the timer fired
C28_RemovedWitness ==
    /\ Len(timers) = 1
    /\ timers[1].pc = "done"
    /\ timers[1].seen = 0
    /\ \E j \in DOMAIN handled : handled[j].via = "reevaluation"
    /\ FallbackSends = {}

\* a timer waits for the lock a request took and never gave back
C28_HeldWitness ==
    /\ \E i \in DOMAIN sub :
          /\ sub[i].pc = "returned"
          /\ mutex = i
    /\ \E k \in DOMAIN timers : timers[k].pc = "armed"

-----------------------------------------------------------------------------
(* Client handler: the upgrade of a connection to a websocket.  wsHandler    *)
(* reads the account and the secret hash of the Authorization header, asks   *)
(* the SDN for the model of an account that is not the gateway's, and either *)
(* closes the connection after a delay or starts a session.                  *)

\* a text, character by character
Digit(d) == <<"0", "1", "2", "3", "4", "5", "6", "7", "8", "9">>[d + 1]

\* strconv.FormatInt(n, 10) of a number that is not negative
RECURSIVE FormatInt(_)
FormatInt(n) ==
    IF n < 10 THEN <<Digit(n)>> ELSE Append(FormatInt(n \div 10), Digit(n % 10))

\* strings.Contains(s, substr): substr is within s
stringsContains(s, substr) ==
    \E n \in 0..(Len(s) - Len(substr)) : SubSeq(s, n + 1, n + Len(substr)) = substr

StatusUnauthorized == 401

\* the texts of the errors of getCustomerAccountModel: "401", "got 401",
\* "503", "EOF"
SDNErrors ==
    { <<"4", "0", "1">>,
      <<"g", "o", "t", " ", "4", "0", "1">>,
      <<"5", "0", "3">>,
      <<"E", "O", "F">> }

\* sdnmessage.Account, as far as the upgrade reads it
AccountModel(id, secretHash, tier) ==
    [AccountID |-> id, SecretHash |-> secretHash, TierName |-> tier]
NoAccountModel == AccountModel("", "", "")

TierNames == {"Introductory", "Professional", "Enterprise", "EnterpriseElite", "Ultra"}
IsEnterprise(tier) == tier \in {"Enterprise", "EnterpriseElite", "Ultra"}

\* sdnmessage.GetDefaultEliteAccount
GetDefaultEliteAccount == AccountModel("", "", "EnterpriseElite")

\* wsHandler, the error of getCustomerAccountModel: is it the refusal of the
\* SDN
IsUnauthorized(errText) == stringsContains(FormatInt(StatusUnauthorized), errText)

\* the answer of getCustomerAccountModel: a model, or an error
SDNModel(model) == [failed |-> FALSE, err |-> <<>>, model |-> model]
SDNError(errText) == [failed |-> TRUE, err |-> errText, model |-> NoAccountModel]

\* errorWithDelay: the close message when the upgrade worked, the sleep of
\* ErrWSConnDelay, the connection closed; handleWSClientConnection: a session
\* of the account when the upgrade worked, else the sleep
Closed(upgraded, msg) ==
    [pc |-> "closed", msg |-> IF upgraded THEN msg ELSE Nil, delayed |-> TRUE,
     model |-> NoAccountModel]
Session(upgraded, model) ==
    IF upgraded
    THEN [pc |-> "session", msg |-> Nil, delayed |-> FALSE, model |-> model]
    ELSE [pc |-> "failed", msg |-> Nil, delayed |-> TRUE, model |-> NoAccountModel]

\* the function wsHandler of NewWSServer
wsHandler ==
    /\ wsReq.pc = "new"
    /\ \E upgraded \in BOOLEAN :
       LET connectionAccountID == wsReq.accountID
           connectionSecretHash == wsReq.secretHash
           sdn == wsReq.sdn
           connectionAccountModel ==
               IF connectionAccountID = wsReq.server.AccountID THEN wsReq.server
               ELSE IF sdn.failed
               THEN [GetDefaultEliteAccount EXCEPT
                        !.AccountID = connectionAccountID,
                        !.SecretHash = connectionSecretHash]
               ELSE sdn.model
       IN  wsOut' =
             IF ~wsReq.parsed
             THEN Closed(upgraded, "failed parsing the authorization header")
             ELSE IF /\ connectionAccountID # wsReq.server.AccountID
                     /\ sdn.failed
                     /\ IsUnauthorized(sdn.err)
             THEN Closed(upgraded, "account is not authorized")
             ELSE IF /\ connectionAccountID # wsReq.server.AccountID
                     /\ ~IsEnterprise(connectionAccountModel.TierName)
             THEN Closed(upgraded, "account must be enterprise")
             ELSE IF /\ connectionAccountModel.SecretHash # connectionSecretHash
                     /\ connectionSecretHash # ""
             THEN Closed(upgraded, "wrong value in the authorization header")
             ELSE Session(upgraded, connectionAccountModel)
    /\ wsReq' = [wsReq EXCEPT !.pc = "done"]
    /\ UNCHANGED wsServer
    /\ UNCHANGED <<bridgeVars, fillVars, bpVars, calcVars, chVars, reqVars,
                   loopVars, fanVars, subVars>>

\* an upgrade request: did getAccountIDSecretHashFromReq read an account, the
\* account and the secret hash it read, the account of the gateway, and what
\* the SDN will say of the account
UpgradeRequest(parsed, id, secretHash, server, sdn) ==
    [pc |-> "new", parsed |-> parsed, accountID |-> id, secretHash |-> secretHash,
     server |-> server, sdn |-> sdn]

(* SpecUpgrade: one upgrade request, of the gateway's account or another,    *)
(* with no secret hash, the right one or a wrong one; the SDN answers with   *)
(* an error or with a model of any tier.                                     *)
SecretHashes == {"", "h1", "h2"}

InitUpgrade ==
    /\ BridgeStarts(FALSE, EmptyChans)
    /\ FillIdle
    /\ BpIdle
    /\ CalcIdle
    /\ HandlerIdle
    /\ SubmitIdle
    /\ wsOut = NoUpgrade
    /\ wsServer = NoServer
    /\ \E parsed \in BOOLEAN, id \in {GatewayAccount, OtherAccount},
          secretHash \in SecretHashes, serverTier \in {"Professional", "Enterprise"} :
       \E sdn \in {SDNError(e) : e \in SDNErrors}
                  \cup {SDNModel(AccountModel(id, h, t)) :
                            h \in {"h1", "h2"}, t \in TierNames} :
          wsReq = UpgradeRequest(parsed, id, secretHash,
                                 AccountModel(GatewayAccount, "h1", serverTier), sdn)

NextUpgrade == wsHandler

SpecUpgrade == InitUpgrade /\ [][NextUpgrade]_vars

-----------------------------------------------------------------------------
(* C29: who gets a session *)

\* the request of an account that is not the gateway's was handled
AskedSDN ==
    /\ wsReq.pc = "done"
    /\ wsReq.parsed
    /\ wsReq.accountID # wsReq.server.AccountID

\* the error of the SDN names the status 401
ReportsUnauthorized(sdn) ==
    sdn.failed /\ stringsContains(sdn.err, FormatInt(StatusUnauthorized))

\* the connection was closed after the delay, without a session
ClosedAfterDelay == wsOut.pc = "closed" /\ wsOut.delayed /\ wsOut.model = NoAccountModel

\* the connection was let in with the default elite profile
GrantedDefaultElite ==
    /\ wsOut.pc # "closed"
    /\ wsOut.pc = "session" =>
           wsOut.model = AccountModel(wsReq.accountID, wsReq.secretHash, "EnterpriseElite")

\* the model the secret hash is compared with
ModelOfRequest ==
    IF wsReq.accountID = wsReq.server.AccountID THEN wsReq.server
    ELSE wsReq.sdn.model

\* C29: for an account that is not the gateway's the SDN is asked: when it
\* reports unauthorized the connection is closed after the delay and gets no
\* session; on any other error of the SDN it gets the default elite profile;
\* a tier below enterprise is refused; and a secret hash that is not empty
\* and is not the one of the account model is refused.
C29_Upgrade ==
    /\ AskedSDN /\ ReportsUnauthorized(wsReq.sdn) => ClosedAfterDelay
    /\ AskedSDN /\ wsReq.sdn.failed /\ ~ReportsUnauthorized(wsReq.sdn)
           => GrantedDefaultElite
    /\ AskedSDN /\ ~wsReq.sdn.failed /\ ~IsEnterprise(wsReq.sdn.model.TierName)
           => ClosedAfterDelay
    /\ (/\ wsReq.pc = "done"
        /\ wsReq.parsed
        /\ AskedSDN => ~wsReq.sdn.failed
        /\ wsReq.secretHash # ""
        /\ wsReq.secretHash # ModelOfRequest.SecretHash)
           => ClosedAfterDelay

\* what holds of the code: the same, with an error counted as the refusal of
\* the SDN when its text is within "401"
C29_UpgradeOfCode ==
    /\ AskedSDN /\ wsReq.sdn.failed /\ IsUnauthorized(wsReq.sdn.err)
           => ClosedAfterDelay
    /\ AskedSDN /\ wsReq.sdn.failed /\ ~IsUnauthorized(wsReq.sdn.err)
           => GrantedDefaultElite
    /\ AskedSDN /\ ~wsReq.sdn.failed /\ ~IsEnterprise(wsReq.sdn.model.TierName)
           => ClosedAfterDelay
    /\ (/\ wsReq.pc = "done"
        /\ wsReq.parsed
        /\ AskedSDN => ~wsReq.sdn.failed
        /\ wsReq.secretHash # ""
        /\ wsReq.secretHash # ModelOfRequest.SecretHash)
           => ClosedAfterDelay

\* the SDN said "got 401" and the account has a session of the elite tier
C29_GrantedWitness ==
    /\ AskedSDN
    /\ wsReq.sdn = SDNError(<<"g", "o", "t", " ", "4", "0", "1">>)
    /\ wsOut.pc = "session"
    /\ wsOut.model.TierName = "EnterpriseElite"

\* the SDN said "401" and the connection was closed
C29_ClosedWitness ==
    /\ AskedSDN
    /\ wsReq.sdn = SDNError(<<"4", "0", "1">>)
    /\ ClosedAfterDelay
    /\ wsOut.msg = "account is not authorized"

\* a tier below enterprise, and a wrong secret hash, were refused
C29_TierWitness ==
    /\ AskedSDN
    /\ wsReq.sdn.model.TierName = "Professional"
    /\ wsOut = Closed(TRUE, "account must be enterprise")
C29_SecretWitness ==
    /\ wsReq.pc = "done"
    /\ wsReq.accountID = GatewayAccount
    /\ wsReq.secretHash = "h2"
    /\ wsOut = Closed(TRUE, "wrong value in the authorization header")

-----------------------------------------------------------------------------
(* Client handler: blxr_batch_tx.  Handle calls handleSingleTransaction once *)
(* for every transaction of the list, with sendError false, no next          *)
(* validator and no node validation, and replies with the hashes it got.     *)

\* jsonrpc.RPCBatchTxPayload
RPCBatchTxPayload(transactions, validatorsOnly, originalSender) ==
    [paramsOk |-> TRUE, Transactions |-> transactions,
     ValidatorsOnly |-> validatorsOnly, OriginalSenderAccountID |-> originalSender]

\* a blxr_batch_tx request as Handle finds it: idx is the place in the list,
\* txHashes the hashes collected so far
BatchRequest(account, req) ==
    [account |-> account, req |-> req, pc |-> "batch", ws |-> Nil,
     res |-> NotValidated, out |-> <<>>, idx |-> 1, txHashes |-> <<>>]

\* rpcBatchTxResponse
BatchResult(txHashes) == [Result("") EXCEPT !.ids = txHashes]

\* the loop of Handle(RPCBatchTx): the next transaction, or the reply
BatchNext(r) ==
    [r EXCEPT !.idx = @ + 1,
              !.pc = IF r.idx < Len(r.req.Transactions) THEN "batch lock"
                     ELSE "batch reply"]

\* Handle(RPCBatchTx) before the loop: a connection of another account is
\* logged and gets no answer
BatchHandle(i) ==
    /\ sub[i].pc = "batch"
    /\ LET r == sub[i]
       IN  sub' = [sub EXCEPT ![i] =
                IF txGateway.AccountID # r.account
                THEN [r EXCEPT !.pc = "returned"]
                ELSE IF ~r.req.paramsOk
                THEN [r EXCEPT !.pc = "returned",
                               !.out = SendErrorMsg(r.out, TRUE, InvalidParams,
                                                    "unmarshal error")]
                ELSE [r EXCEPT !.pc = IF Len(r.req.Transactions) = 0
                                      THEN "batch reply" ELSE "batch lock",
                               !.ws = IF r.account = BloxrouteAccountID
                                      THEN r.req.OriginalSenderAccountID
                                      ELSE r.account]]
    /\ UNCHANGED <<txGateway, handled, pendingTxs, timers, mutex, nStashed>>
    /\ UNCHANGED <<bridgeVars, fillVars, bpVars, calcVars, chVars, reqVars,
                   loopVars, fanVars, wsVars>>

\* handleSingleTransaction of a transaction of the list:
\* LockPendingNextValidatorTxs
BatchLock(i) ==
    /\ sub[i].pc = "batch lock"
    /\ CanLock(mutex)
    /\ mutex' = i
    /\ sub' = [sub EXCEPT ![i].pc = "batch locked"]
    /\ UNCHANGED <<txGateway, handled, pendingTxs, timers, nStashed>>
    /\ UNCHANGED <<bridgeVars, fillVars, bpVars, calcVars, chVars, reqVars,
                   loopVars, fanVars, wsVars>>

\* handleSingleTransaction with the lock: a string that is not hex is
\* answered with an error, whatever sendError says, and the function returns
\* with the lock held; any other string is validated and the lock released
BatchValidate(i) ==
    /\ sub[i].pc = "batch locked"
    /\ LET r == sub[i]
           transaction == r.req.Transactions[r.idx]
       IN  IF ~DecodeHex(transaction)
           THEN /\ sub' = [sub EXCEPT ![i] =
                        BatchNext([r EXCEPT !.out = SendErrorMsg(r.out, TRUE,
                                                        InvalidParams, "invalid hex")])]
                /\ UNCHANGED <<pendingTxs, mutex, nStashed>>
           ELSE LET v == ValidateTxFromExternalSource(
                             transaction, r.req.ValidatorsOnly, txGateway.chainID,
                             FALSE, 0, NilMap, EmptyMap, txGateway.networkNum, r.ws,
                             FALSE, "ok", r.ws, pendingTxs, FALSE, nStashed + 1)
                IN  /\ sub' = [sub EXCEPT ![i] =
                            [r EXCEPT !.pc = "batch validated",
                                      !.res = [v EXCEPT !.table = EmptyMap]]]
                    /\ pendingTxs' = v.table
                    /\ nStashed' = IF v.pending THEN nStashed + 1 ELSE nStashed
                    /\ mutex' = "free"
    /\ UNCHANGED <<txGateway, handled, timers>>
    /\ UNCHANGED <<bridgeVars, fillVars, bpVars, calcVars, chVars, reqVars,
                   loopVars, fanVars, wsVars>>

\* what becomes of the request when handleSingleTransaction goes on with the
\* nil transaction of a failed validation: node.HandleMsg returns an error
\* and the transaction is skipped, or the nil pointer is dereferenced, in
\* HandleMsg or in tx.Hash(), and the goroutine panics
NilTxOutcomes == {"skipped", "panic"}

\* handleSingleTransaction after the lock, sendError false: the error of the
\* validation is not looked at, and the transaction, nil after an error,
\* goes to the node
BatchSend(i) ==
    /\ sub[i].pc = "batch validated"
    /\ LET r == sub[i]
           v == r.res
       IN  /\ handled' = Append(handled, Handled(v.tx, r.ws, "submit", 0, i))
           /\ IF v.err # Nil
              THEN \E outcome \in NilTxOutcomes :
                      sub' = [sub EXCEPT ![i] =
                          IF outcome = "panic" THEN [r EXCEPT !.pc = "panic"]
                          ELSE BatchNext(r)]
              ELSE \E ok \in BOOLEAN :
                      sub' = [sub EXCEPT ![i] =
                          IF ok
                          THEN BatchNext([r EXCEPT !.txHashes = Append(@, v.tx.hash)])
                          ELSE BatchNext(r)]
    /\ UNCHANGED <<txGateway, pendingTxs, timers, mutex, nStashed>>
    /\ UNCHANGED <<bridgeVars, fillVars, bpVars, calcVars, chVars, reqVars,
                   loopVars, fanVars, wsVars>>

\* Handle(RPCBatchTx) after the loop
BatchReply(i) ==
    /\ sub[i].pc = "batch reply"
    /\ LET r == sub[i]
       IN  sub' = [sub EXCEPT ![i] =
               [r EXCEPT !.pc = "returned",
                         !.out = IF Len(r.txHashes) = 0
                                 THEN SendErrorMsg(r.out, TRUE, InvalidParams,
                                                   "all transactions are invalid")
                                 ELSE Write(r.out, TRUE, BatchResult(r.txHashes))]]
    /\ UNCHANGED <<txGateway, handled, pendingTxs, timers, mutex, nStashed>>
    /\ UNCHANGED <<bridgeVars, fillVars, bpVars, calcVars, chVars, reqVars,
                   loopVars, fanVars, wsVars>>

(* SpecBatch: a blxr_batch_tx request of up to MaxBatch transactions and,    *)
(* beside it, a blxr_tx request for the next validator with a fallback, on a *)
(* gateway of BSC whose second newest validator is not accessible.           *)
BatchLists ==
    UNION {[1..n -> {"zz", "ff", "a56", "b1", "c0"}] : n \in 0..MaxBatch}

BatchPayloads ==
    {RPCBatchTxPayload(l, vo, EmptyAccountID) : l \in BatchLists, vo \in BOOLEAN}
        \cup {[RPCBatchTxPayload(<<"a56">>, FALSE, EmptyAccountID)
                  EXCEPT !.paramsOk = FALSE]}

InitBatch ==
    /\ BridgeStarts(FALSE, EmptyChans)
    /\ FillIdle
    /\ BpIdle
    /\ CalcIdle
    /\ HandlerIdle
    /\ UpgradeIdle
    /\ \E account \in {GatewayAccount, OtherAccount}, b \in BatchPayloads,
          t \in {"a56", "zz"} :
          SubmitStarts(PendingGateway,
              [i \in {"r1", "r2"} |->
                  IF i = "r1" THEN BatchRequest(account, b)
                  ELSE TxRequest(GatewayAccount,
                                 RPCTxPayload(t, FALSE, TRUE, blockIntervalBSC, FALSE,
                                              FALSE, EmptyAccountID))])

NextBatch ==
    \/ \E i \in DOMAIN sub : BatchHandle(i)
    \/ \E i \in DOMAIN sub : BatchLock(i)
    \/ \E i \in DOMAIN sub : BatchValidate(i)
    \/ \E i \in DOMAIN sub : BatchSend(i)
    \/ \E i \in DOMAIN sub : BatchReply(i)
    \/ NextSubmit

SpecBatch == InitBatch /\ [][NextBatch]_vars

-----------------------------------------------------------------------------
(* blxr_batch_tx: the reply *)

\* the blxr_batch_tx requests of the model
BatchRequests == {i \in DOMAIN sub : "txHashes" \in DOMAIN sub[i]}

\* the request can take no further step of its own: it panicked, or it waits
\* for the lock it holds itself
BatchPanicked(i) == sub[i].pc = "panic"
BatchBlocksItself(i) == sub[i].pc = "batch lock" /\ mutex = i

\* the messages written to the connection of request i
IsErrorOf(msg, code) == msg.kind = "error" /\ msg.code = code
IsHashesOf(msg, txHashes) == msg.kind = "result" /\ msg.ids = txHashes

\* C31: a blxr_batch_tx request always ends with one reply or one error: the
\* reply lists the hashes of the accepted transactions in the order of the
\* list when there is one, and the error is InvalidParams when there is none;
\* the request neither dies nor hangs before that
C31_BatchReply ==
    \A i \in BatchRequests :
        /\ ~BatchPanicked(i)
        /\ ~BatchBlocksItself(i)
        /\ sub[i].pc = "returned" =>
              /\ Len(sub[i].out) = 1
              /\ IF sub[i].txHashes # <<>>
                 THEN IsHashesOf(sub[i].out[1], sub[i].txHashes)
                 ELSE IsErrorOf(sub[i].out[1], InvalidParams)

\* what the code does for a request of the gateway's account: the last
\* message of a request that returns is the reply with the collected hashes,
\* or an InvalidParams error when none was collected; every string of the
\* list that is not hex has put one more error before it
C31_ReplyOfCode ==
    \A i \in BatchRequests :
        (sub[i].pc = "returned" /\ sub[i].account = txGateway.AccountID) =>
            LET out == sub[i].out
                badHex == {n \in 1..Len(sub[i].req.Transactions) :
                              ~DecodeHex(sub[i].req.Transactions[n])}
            IN  /\ sub[i].req.paramsOk => Len(out) = Cardinality(badHex) + 1
                /\ \A n \in 1..(Len(out) - 1) : IsErrorOf(out[n], InvalidParams)
                /\ IF sub[i].txHashes # <<>>
                   THEN IsHashesOf(out[Len(out)], sub[i].txHashes)
                   ELSE IsErrorOf(out[Len(out)], InvalidParams)

\* a list of one string that is not hex is answered with two errors
C31_TwoErrorsWitness ==
    \E i \in BatchRequests :
        /\ sub[i].pc = "returned"
        /\ Len(sub[i].req.Transactions) = 1
        /\ Len(sub[i].out) = 2
        /\ IsErrorOf(sub[i].out[1], InvalidParams)
        /\ IsErrorOf(sub[i].out[2], InvalidParams)

\* a connection of another account is not answered
C31_SilentWitness ==
    \E i \in BatchRequests :
        /\ sub[i].pc = "returned"
        /\ sub[i].account # txGateway.AccountID
        /\ sub[i].out = <<>>

\* a request whose transactions were all taken is answered with their hashes
C31_AllWitness ==
    \E i \in BatchRequests :
        /\ sub[i].pc = "returned"
        /\ Len(sub[i].txHashes) = 2
        /\ sub[i].out = <<BatchResult(sub[i].txHashes)>>

-----------------------------------------------------------------------------
(* blxr_batch_tx: the transactions of the list that fail *)

\* the transaction fails hex decoding or validation on the gateway
FailsValidation(transaction) ==
    \/ ~ethTx(transaction).hex
    \/ ~ethTx(transaction).decodes
    \/ ChainIDsDiffer(ethTx(transaction).ChainId, txGateway.chainID)

\* the hashes of the transactions of a list that do not fail
ValidHashes(transactions) ==
    {ethTx(transactions[n]).hash :
        n \in {m \in 1..Len(transactions) : ~FailsValidation(transactions[m])}}

\* the places of the list of request i whose call of handleSingleTransaction
\* has returned
BatchDone(i) == 1..(sub[i].idx - 1)

\* C38: of a blxr_batch_tx request, a transaction that fails hex decoding or
\* validation is skipped: the message handler gets no message for it, and no
\* nil transaction at all, its hash is not in the reply, and the transactions
\* after it are still processed
C38_SkipsFailed ==
    \A i \in BatchRequests :
        /\ \A j \in HandledOf(i) : handled[j].tx.hash # Nil
        /\ Cardinality(HandledOf(i))
              <= Cardinality({n \in BatchDone(i) \cup {sub[i].idx} :
                                 /\ n <= Len(sub[i].req.Transactions)
                                 /\ ~FailsValidation(sub[i].req.Transactions[n])})
        /\ \A n \in 1..Len(sub[i].txHashes) :
              sub[i].txHashes[n] \in ValidHashes(sub[i].req.Transactions)
        /\ ~BatchPanicked(i)
        /\ ~BatchBlocksItself(i)

\* what holds of the code: no hash of a failed transaction is collected, and
\* the handler has got one message for every place of the list that was hex
C38_HashesOfCode ==
    \A i \in BatchRequests :
        /\ \A n \in 1..Len(sub[i].txHashes) :
              sub[i].txHashes[n] \in ValidHashes(sub[i].req.Transactions)
        /\ sub[i].pc \in {"batch lock", "batch reply", "returned"} =>
              Cardinality(HandledOf(i))
                 = Cardinality({n \in BatchDone(i) :
                                   DecodeHex(sub[i].req.Transactions[n])})

\* the handler got the nil transaction of a failed validation, and the request
\* went on
C38_NilTxWitness ==
    \E i \in BatchRequests :
        /\ \E j \in HandledOf(i) : handled[j].tx.hash = Nil
        /\ sub[i].pc = "returned"

\* the handler got a nil transaction and the request panicked
C38_PanicWitness ==
    \E i \in BatchRequests :
        /\ \E j \in HandledOf(i) : handled[j].tx.hash = Nil
        /\ BatchPanicked(i)

\* after a string that is not hex the request waits for its own lock, with a
\* transaction of the list left
C38_BlockedWitness ==
    \E i \in BatchRequests :
        /\ BatchBlocksItself(i)
        /\ ~FailsValidation(sub[i].req.Transactions[sub[i].idx])

-----------------------------------------------------------------------------
(* The lock of the pending table at the exits of handleSingleTransaction *)

\* request i is outside handleSingleTransaction: before its first call,
\* between two calls of a batch, or after the last
OutsideSingleTransaction(i) ==
    sub[i].pc \in {"new", "batch", "lock", "batch lock", "batch reply", "returned", "panic"}

\* C34: the lock of the pending table is released on every exit path of
\* handleSingleTransaction, the one of a string that is not hex included: a
\* request that is outside the function does not hold it, and a request that
\* has finished leaves it free for the submissions and timers after it
C34_Released ==
    \A i \in DOMAIN sub : OutsideSingleTransaction(i) => mutex # i

\* what holds of the code: the lock is held outside the function only after
\* a string that was not hex
C34_ReleasedOfCode ==
    \A i \in DOMAIN sub :
        (OutsideSingleTransaction(i) /\ mutex = i) =>
            IF i \in BatchRequests
            THEN \E n \in BatchDone(i) : ~DecodeHex(sub[i].req.Transactions[n])
            ELSE ~DecodeHex(sub[i].req.Transaction)

\* a blxr_tx request of a string that is not hex has returned with the lock,
\* and the batch beside it waits for the lock with no step left to free it
C34_StarvedWitness ==
    \E i, j \in DOMAIN sub :
        /\ sub[i].pc = "returned"
        /\ mutex = i
        /\ sub[j].pc = "batch lock"
        /\ \A k \in DOMAIN timers : timers[k].pc = "armed"

\* a batch has returned with the lock after a string that was not hex
C34_BatchHeldWitness ==
    \E i \in BatchRequests :
        /\ sub[i].pc = "returned"
        /\ mutex = i

-----------------------------------------------------------------------------
(* Client handler: what becomes of an accepted next-validator transaction.   *)
(* SpecPendingLive is SpecPending with every request and every timer going   *)
(* on whenever it can; the removal by the gateway, which waits for the       *)
(* validator to become accessible, need never happen.                        *)

SpecPendingLive ==
    /\ SpecPending
    /\ WF_vars(\E i \in DOMAIN sub : TxHandle(i))
    /\ WF_vars(\E i \in DOMAIN sub : TxLock(i))
    /\ WF_vars(\E i \in DOMAIN sub : TxValidate(i))
    /\ WF_vars(\E i \in DOMAIN sub : TxSend(i))
    /\ WF_vars(\E k \in DOMAIN timers : TimerLock(k))
    /\ WF_vars(\E k \in DOMAIN timers : TimerCheck(k))
    /\ WF_vars(\E k \in DOMAIN timers : TimerSubmit(k))
    /\ WF_vars(\E k \in DOMAIN timers : TimerUnlock(k))

\* the requests of SpecPending
PendingRequests == {RequestIDs[n] : n \in 1..MaxRequests}

\* blxr_tx accepted the next-validator transaction of request i: the client
\* has its hash
Accepted(i) ==
    /\ sub[i].pc = "returned"
    /\ sub[i].req.NextValidator
    /\ Len(sub[i].out) = 1
    /\ sub[i].out[1].kind = "result"
    /\ sub[i].out[1].text = ethTx(sub[i].req.Transaction).hash

\* the message handler has got the transaction of request i
HandedOver(i) ==
    \E j \in DOMAIN handled :
        handled[j].tx.hash = ethTx(sub[i].req.Transaction).hash

\* a request has returned with the lock of the pending table
LockLeaked == \E j \in DOMAIN sub : sub[j].pc = "returned" /\ mutex = j

\* C40: every next-validator transaction blxr_tx accepts is eventually handed
\* to the message handler, whatever its fallback, zero included: at once, or
\* by the fallback timer when it was stashed
C40_EventuallyHanded ==
    \A i \in PendingRequests : Accepted(i) ~> HandedOver(i)

\* the same for the requests with a fallback: fails as well, the timer
\* waiting for a lock that is never released
C40_WithFallback ==
    \A i \in PendingRequests :
        (Accepted(i) /\ sub[i].req.Fallback # 0) ~> HandedOver(i)

\* what holds of the code: with a fallback, the transaction is handed over
\* unless a request has returned with the lock
C40_HandedOfCode ==
    \A i \in PendingRequests :
        (Accepted(i) /\ sub[i].req.Fallback # 0) ~> (HandedOver(i) \/ LockLeaked)

\* an accepted transaction without a fallback waits in the table, no timer is
\* armed for it and no request is left that could arm one
C40_NoTimerWitness ==
    \E i \in DOMAIN sub :
        /\ Accepted(i)
        /\ sub[i].req.Fallback = 0
        /\ ~HandedOver(i)
        /\ ethTx(sub[i].req.Transaction).hash \in DOMAIN pendingTxs
        /\ timers = <<>>
        /\ \A j \in DOMAIN sub : sub[j].pc = "returned"

\* an accepted transaction waits in the table, its timer is armed, and the
\* lock the timer needs is held by a request that has returned
C40_TimerStarvedWitness ==
    \E i \in DOMAIN sub :
        /\ Accepted(i)
        /\ sub[i].req.Fallback # 0
        /\ ~HandedOver(i)
        /\ \E k \in TimersOf(i) : timers[k].pc = "armed"
        /\ LockLeaked

-----------------------------------------------------------------------------
(* Client handler: ping, blxr_mev_searcher, quota_usage and the default of   *)
(* the switch of Handle.  Each request is a goroutine of its own, kept with  *)
(* the submissions.                                                          *)

MethodNotFound == "MethodNotFound"
AccountIDError == "AccountIDError"

\* sendBundleArgs, and the params of blxr_mev_searcher: were there params,
\* did json.Unmarshal take them, did it take the payload, the bundles of the
\* payload, and does bxmessage.NewMEVSearcher take the method and builders
SendBundleArgs(txs, uuid, blockNumber) ==
    [Txs |-> txs, UUID |-> uuid, BlockNumber |-> blockNumber]
MEVPayload(hasParams, paramsOk, payloadOk, bundles, newOk) ==
    [hasParams |-> hasParams, paramsOk |-> paramsOk, payloadOk |-> payloadOk,
     bundles |-> bundles, newOk |-> newOk]

\* hexutil.DecodeUint64 takes the block number
HexBlockNumbers == {"0x1"}

\* sendBundleArgs.validate: the error, or Nil
validate(s) ==
    IF Len(s.Txs) = 0 /\ s.UUID = "" THEN "bundle missing txs"
    ELSE IF s.BlockNumber = "" THEN "bundle missing blockNumber"
    ELSE IF \E n \in 1..Len(s.Txs) : ~ethTx(s.Txs[n]).decodes THEN "unmarshal error"
    ELSE IF s.UUID # "" /\ s.UUID \notin UUIDs THEN "invalid UUID"
    ELSE IF s.BlockNumber \notin HexBlockNumbers THEN "blockNumber must be hex"
    ELSE Nil

\* a request of one of the other methods as Handle finds it
RPCRequest(method, account, req) ==
    [account |-> account, req |-> req, pc |-> method, ws |-> Nil,
     res |-> NotValidated, out |-> <<>>]

\* bxmessage.NewMEVSearcher with its hash and network number set
MEVSearcher(networkNum, accountID) ==
    [hash |-> "hM", networkNum |-> networkNum, flags |-> {},
     accountID |-> accountID, fallback |-> 0, walletID |-> NoWallets]

\* Handle(RPCPing)
Ping(i) ==
    /\ sub[i].pc = "ping"
    /\ sub' = [sub EXCEPT ![i].pc = "returned",
                          ![i].out = Write(@, TRUE, Result("pong"))]
    /\ UNCHANGED <<txGateway, handled, pendingTxs, timers, mutex, nStashed>>
    /\ UNCHANGED <<bridgeVars, fillVars, bpVars, calcVars, chVars, reqVars,
                   loopVars, fanVars, wsVars>>

\* Handle(RPCMEVSearcher).  For a payload that is not one bundle the handler
\* calls err.Error() on the nil error of the json.Unmarshal before it, and
\* panics before anything is written.
MevSearcherHandle(i) ==
    /\ sub[i].pc = "mev"
    /\ LET r == sub[i]
           p == r.req
           refuse(code, text) ==
               /\ sub' = [sub EXCEPT ![i].pc = "returned",
                                     ![i].out = SendErrorMsg(@, TRUE, code, text)]
               /\ UNCHANGED handled
       IN  IF txGateway.AccountID # r.account
           THEN refuse(AccountIDError, "blxr_mev_searcher is not allowed")
           ELSE IF ~p.hasParams THEN refuse(InvalidParams, "params not found")
           ELSE IF ~p.paramsOk THEN refuse(InvalidParams, "unmarshal error")
           ELSE IF ~p.payloadOk THEN refuse(InvalidParams, "unmarshal error")
           ELSE IF Len(p.bundles) # 1
           THEN /\ sub' = [sub EXCEPT ![i].pc = "panic"]
                /\ UNCHANGED handled
           ELSE IF validate(p.bundles[1]) # Nil
           THEN refuse(InvalidParams, validate(p.bundles[1]))
           ELSE IF ~p.newOk THEN refuse(InvalidParams, "new mevSearcher error")
           ELSE /\ handled' = Append(handled,
                                 Handled(MEVSearcher(txGateway.networkNum, r.account),
                                         r.account, "mev", 0, i))
                /\ \E ok \in BOOLEAN :
                      sub' = [sub EXCEPT
                          ![i].pc = "returned",
                          ![i].ws = r.account,
                          ![i].out = IF ok THEN Write(@, TRUE, Result("ok"))
                                     ELSE SendErrorMsg(@, TRUE, InvalidParams,
                                                       "handle error")]
    /\ UNCHANGED <<txGateway, pendingTxs, timers, mutex, nStashed>>
    /\ UNCHANGED <<bridgeVars, fillVars, bpVars, calcVars, chVars, reqVars,
                   loopVars, fanVars, wsVars>>

\* Handle(RPCQuotaUsage): the error of getQuotaUsage is sent, and the reply
\* with the empty result follows it
QuotaUsage(i) ==
    /\ sub[i].pc = "quota"
    /\ \E found \in BOOLEAN :
          LET afterErr == IF found THEN sub[i].out
                          ELSE SendErrorMsg(sub[i].out, TRUE, MethodNotFound,
                                            "failed to fetch quota usage")
          IN  sub' = [sub EXCEPT
                  ![i].pc = "returned",
                  ![i].out = Write(afterErr, TRUE,
                                   Result(IF found THEN "quota" ELSE "nil"))]
    /\ UNCHANGED <<txGateway, handled, pendingTxs, timers, mutex, nStashed>>
    /\ UNCHANGED <<bridgeVars, fillVars, bpVars, calcVars, chVars, reqVars,
                   loopVars, fanVars, wsVars>>

\* Handle, default: a method the switch does not know
UnsupportedMethod(i) ==
    /\ sub[i].pc = "unsupported"
    /\ sub' = [sub EXCEPT ![i].pc = "returned",
                          ![i].out = SendErrorMsg(@, TRUE, MethodNotFound,
                                                  "got unsupported method name")]
    /\ UNCHANGED <<txGateway, handled, pendingTxs, timers, mutex, nStashed>>
    /\ UNCHANGED <<bridgeVars, fillVars, bpVars, calcVars, chVars, reqVars,
                   loopVars, fanVars, wsVars>>

(* SpecReply: one request of any method but subscribe.  An unsubscribe       *)
(* request is a request of the handler of SpecRequest; the others are kept   *)
(* with the submissions, on a gateway of BSC.                                *)
MEVBundles ==
    {SendBundleArgs(txs, uuid, bn) :
        txs \in {<<>>, <<"a56">>, <<"ff">>}, uuid \in {"", NewID, "no uuid"},
        bn \in {"", "0x1", "latest"}}

MEVPayloads ==
    {MEVPayload(TRUE, TRUE, TRUE, <<b>>, newOk) : b \in MEVBundles, newOk \in BOOLEAN}
        \cup {MEVPayload(TRUE, TRUE, TRUE, l, TRUE) :
                 l \in {<<>>, <<SendBundleArgs(<<"a56">>, "", "0x1"),
                                SendBundleArgs(<<"a56">>, "", "0x1")>>}}
        \cup {MEVPayload(FALSE, TRUE, TRUE, <<>>, TRUE),
              MEVPayload(TRUE, FALSE, TRUE, <<>>, TRUE),
              MEVPayload(TRUE, TRUE, FALSE, <<>>, TRUE)}

ReplyRequests(account) ==
    {TxRequest(account, p) : p \in PendingPayloads \cup {BadPayload}}
        \cup {BatchRequest(account, b) : b \in BatchPayloads}
        \cup {RPCRequest("mev", account, p) : p \in MEVPayloads}
        \cup {RPCRequest(method, account, [method |-> method]) :
                 method \in {"ping", "quota", "unsupported"}}

InitReply ==
    /\ BridgeStarts(FALSE, EmptyChans)
    /\ FillIdle
    /\ BpIdle
    /\ CalcIdle
    /\ \/ \E gw \in Gateways, account \in Accounts,
             req \in UnsubscribeRequests, subs \in {EmptyMap, OldSubscriptions} :
             HandlerStarts(req, gw, account, subs)
       \/ /\ HandlerIdle
          /\ UpgradeIdle
          /\ \E account \in {GatewayAccount, OtherAccount} :
             \E r \in ReplyRequests(account) :
                SubmitStarts(PendingGateway, [i \in {"r1"} |-> r])

NextReply ==
    \/ HandleUnsubscribe
    \/ \E i \in DOMAIN sub : Ping(i)
    \/ \E i \in DOMAIN sub : MevSearcherHandle(i)
    \/ \E i \in DOMAIN sub : QuotaUsage(i)
    \/ \E i \in DOMAIN sub : UnsupportedMethod(i)
    \/ NextBatch

SpecReply == InitReply /\ [][NextReply]_vars

-----------------------------------------------------------------------------
(* The responses of a request (SpecReply) *)

\* what was written for the unsubscribe request of the handler, and for
\* request i of the other methods
IsResponse(msg) == msg.kind \in {"result", "error"}

\* request i can take no further step of its own
Ended(i) == sub[i].pc \in {"returned", "panic"} \/ BatchBlocksItself(i)

\* C35: every request with method unsubscribe, blxr_tx, blxr_batch_tx,
\* blxr_mev_searcher, ping or quota_usage gets exactly one response on every
\* path through the handler, a result or an error: never two, never none
C35_OneResponse ==
    /\ (request.method = "unsubscribe" /\ hpc = "returned") =>
          (Len(sent) = 1 /\ IsResponse(sent[1]))
    /\ \A i \in DOMAIN sub :
          Ended(i) => (Len(sub[i].out) = 1 /\ IsResponse(sub[i].out[1]))

\* what holds of the code: no request gets more than two responses, and ping
\* and the default of the switch always get one
C35_ResponsesOfCode ==
    /\ Len(sent) <= 2
    /\ \A i \in DOMAIN sub :
          /\ sub[i].req \in {[method |-> "ping"], [method |-> "unsupported"]} =>
                (sub[i].pc = "returned" <=> Len(sub[i].out) = 1)
          /\ i \notin BatchRequests => Len(sub[i].out) <= 2
          /\ \A n \in 1..Len(sub[i].out) : IsResponse(sub[i].out[n])
          /\ sub[i].pc = "returned" /\ Len(sub[i].out) = 2 =>
                \/ i \in BatchRequests
                \/ sub[i].out[1].code = MethodNotFound /\ sub[i].out[2].kind = "result"

\* an unsubscribe of an ID that is not registered is answered "false" and
\* then "true"
C35_UnsubscribeTwiceWitness ==
    /\ request.method = "unsubscribe"
    /\ hpc = "returned"
    /\ sent = <<Result("false"), Result("true")>>

\* a failed quota lookup is answered with an error and then with a result
C35_QuotaTwiceWitness ==
    \E i \in DOMAIN sub :
        /\ sub[i].pc = "returned"
        /\ Len(sub[i].out) = 2
        /\ IsErrorOf(sub[i].out[1], MethodNotFound)
        /\ sub[i].out[2].kind = "result"

\* a blxr_mev_searcher request whose payload is not one bundle is not answered
C35_MevPanicWitness ==
    \E i \in DOMAIN sub :
        /\ sub[i].pc = "panic"
        /\ "bundles" \in DOMAIN sub[i].req
        /\ Len(sub[i].req.bundles) # 1
        /\ sub[i].out = <<>>

\* a blxr_tx request whose transaction the message handler refused is not
\* answered
C35_TxSilentWitness ==
    \E i \in DOMAIN sub :
        /\ sub[i].pc = "returned"
        /\ "Transaction" \in DOMAIN sub[i].req
        /\ sub[i].account = txGateway.AccountID
        /\ HandledOf(i) # {}
        /\ sub[i].out = <<>>

\* a blxr_mev_searcher request is answered once: a reply, an error of the
\* account, an error of the message handler
C35_MevOnceWitness ==
    \E i \in DOMAIN sub :
        /\ sub[i].pc = "returned"
        /\ "bundles" \in DOMAIN sub[i].req
        /\ HandledOf(i) # {}
        /\ sub[i].out = <<Result("ok")>>

-----------------------------------------------------------------------------
(* Client handler: the account and the secret hash of an upgrade request     *)
(* (SpecAuth).  The payload of the Authorization header is a list of tokens, *)
(* ":" being the colon, with at most one token on each side of the first     *)
(* colon.                                                                     *)

\* the Authorization header: none, one that is not base64, or a payload
NoHeader == [kind |-> "none", payload |-> <<>>]
NotBase64 == [kind |-> "not base64", payload |-> <<>>]
Base64(payload) == [kind |-> "base64", payload |-> payload]

\* an upgrade request: its header, and the account of the extension of its
\* client certificate ("none" without a certificate, "error" when the
\* certificate has no such extension)
HTTPRequest(header, cert) == [header |-> header, cert |-> cert]

\* the string of a list of at most one token
Join(tokens) == IF Len(tokens) = 0 THEN "" ELSE tokens[1]

\* strings.SplitN(payload, ":", 2)
SplitN2(payload) ==
    LET colons == {n \in 1..Len(payload) : payload[n] = ":"}
    IN  IF colons = {} THEN <<payload>>
        ELSE LET first == CHOOSE n \in colons : \A k \in colons : n <= k
             IN  <<SubSeq(payload, 1, first - 1),
                   SubSeq(payload, first + 1, Len(payload))>>

\* getAccountIDSecretHashFromReq
AuthResult(accountID, secretHash, err) ==
    [accountID |-> accountID, secretHash |-> secretHash, err |-> err]
getAccountIDSecretHashFromReq(req, websocketTLSEnabled) ==
    LET parts == SplitN2(req.header.payload)
        missing(accountID, secretHash) ==
            IF accountID = "" THEN AuthResult("", secretHash, "missing authorization")
            ELSE AuthResult(accountID, secretHash, Nil)
    IN  IF req.header.kind = "not base64"
        THEN AuthResult("", "", "DecodeString error")
        ELSE IF req.header.kind = "base64"
        THEN IF Len(parts) = 1
             THEN AuthResult("", "", "invalid Authorization")
             ELSE missing(Join(parts[1]), Join(parts[2]))
        ELSE IF websocketTLSEnabled /\ req.cert # "none"
        THEN IF req.cert = "error"
             THEN AuthResult("", "", "failed to get account_id extension")
             ELSE missing(req.cert, "")
        ELSE missing("", "")

\* the upgrade requests of SpecAuth
AuthPayloads ==
    { <<>>, <<"gw">>, <<":">>, <<"gw", ":">>, <<":", "h1">>, <<"gw", ":", "h1">>,
      <<"gw", ":", "h2">>, <<"gw", ":", ":">>, <<"other", ":", "h1">>,
      <<"other", ":">> }
HTTPRequests ==
    {HTTPRequest(h, c) :
        h \in {NoHeader, NotBase64} \cup {Base64(p) : p \in AuthPayloads},
        c \in {"none", "error", GatewayAccount, OtherAccount}}

InitAuth ==
    /\ BridgeStarts(FALSE, EmptyChans)
    /\ FillIdle
    /\ BpIdle
    /\ CalcIdle
    /\ HandlerIdle
    /\ SubmitIdle
    /\ wsOut = NoUpgrade
    /\ wsServer = NoServer
    /\ \E req \in HTTPRequests, websocketTLSEnabled \in BOOLEAN :
       \E sdn \in {SDNError(<<"5", "0", "3">>),
                   SDNModel(AccountModel(OtherAccount, "h1", "Enterprise"))} :
          LET auth == getAccountIDSecretHashFromReq(req, websocketTLSEnabled)
          IN  wsReq = UpgradeRequest(auth.err = Nil, auth.accountID, auth.secretHash,
                                     AccountModel(GatewayAccount, "h1", "Enterprise"),
                                     sdn)
                        @@ [request |-> req, tls |-> websocketTLSEnabled]

SpecAuth == InitAuth /\ [][NextUpgrade]_vars

\* the request named the account of the gateway in its Authorization header
\* and got a session
SessionByHeader ==
    /\ wsReq.pc = "done"
    /\ wsReq.request.header.kind = "base64"
    /\ Len(wsReq.request.header.payload) > 0
    /\ wsReq.request.header.payload[1] = wsReq.server.AccountID
    /\ wsOut.pc = "session"
    /\ wsOut.model.AccountID = wsReq.server.AccountID

\* the secret part of the header of the request
SecretPart == SplitN2(wsReq.request.header.payload)[2]

\* C39: an upgrade whose Authorization header names the account of the gateway
\* gets a session only if the secret hash of the header is the one of the
\* gateway's account: not with another, not with an empty one
C39_SecretRequired ==
    SessionByHeader => SecretPart = <<wsReq.server.SecretHash>>

\* what holds of the code: the secret part is the secret hash of the account,
\* or it is empty
C39_SecretOfCode ==
    SessionByHeader => SecretPart \in {<<wsReq.server.SecretHash>>, <<>>}

\* the header "gw:" has a session of the gateway's account
C39_EmptySecretWitness ==
    /\ SessionByHeader
    /\ wsReq.request.header.payload = <<"gw", ":">>
    /\ wsOut.model = wsReq.server

\* the header "gw:h2" is refused, "gw:h1" has a session
C39_WrongSecretWitness ==
    /\ wsReq.pc = "done"
    /\ wsReq.request.header.payload = <<"gw", ":", "h2">>
    /\ ClosedAfterDelay
C39_RightSecretWitness ==
    /\ SessionByHeader
    /\ wsReq.request.header.payload = <<"gw", ":", "h1">>

-----------------------------------------------------------------------------
(* Bridge: the alert that no blockchain peer is active (SpecAlert).  The     *)
(* channel is made without a buffer: a send goes through only to a receiver  *)
(* that is blocked in its receive.                                           *)

AlertQueue == "noActiveBlockchainPeers"

\* make(chan NoActiveBlockchainPeersAlert): the capacity of the channel
BufferedAlertCap == 1
AlertCap == 0

\* select { case b.noActiveBlockchainPeers <- alert: return nil;
\*          default: return ErrChannelFull } with receiver r blocked on the
\* channel, or with none (r = Nil): the alert goes to r, else into the buffer
\* while it has room
AlertSent(buffer, to, err) == [buffer |-> buffer, to |-> to, err |-> err]
SendNoActiveBlockchainPeersAlert(buffer, r, item) ==
    IF r # Nil THEN AlertSent(buffer, r, Nil)
    ELSE IF Len(buffer) < AlertCap THEN AlertSent(Append(buffer, item), Nil, Nil)
    ELSE AlertSent(buffer, Nil, ErrChannelFull)

\* a producer calls SendNoActiveBlockchainPeersAlert
AlertSend(p) ==
    /\ pc[p] = "idle"
    /\ nSends < MaxSends
    /\ \E r \in IF waiting = {} THEN {Nil} ELSE waiting :
          LET item == [id |-> nSends + 1, by |-> p, Type |-> NoType]
              s == SendNoActiveBlockchainPeersAlert(chans[AlertQueue], r, item)
          IN  /\ chans' = [chans EXCEPT ![AlertQueue] = s.buffer]
              /\ lastCall' = [op |-> "SendNoActiveBlockchainPeersAlert",
                              item |-> item, err |-> s.err]
              /\ sentOk' = IF s.err = Nil
                           THEN [sentOk EXCEPT ![AlertQueue] = Append(@, item)]
                           ELSE sentOk
              /\ refused' = IF s.err = ErrChannelFull THEN refused \cup {item}
                            ELSE refused
              /\ rcvd' = IF s.to # Nil
                         THEN [rcvd EXCEPT ![AlertQueue] =
                                  Append(@, [item |-> item, by |-> s.to])]
                         ELSE rcvd
              /\ waiting' = waiting \ {s.to}
    /\ nSends' = nSends + 1
    /\ UNCHANGED <<beaconBlock, sendq, pc, nRecvs, fillVars, bpVars, restVars>>

\* a receiver receives from ReceiveNoActiveBlockchainPeersAlert(): it takes a
\* buffered alert if there is one, and blocks if not
AlertReceive(r) ==
    /\ r \notin waiting
    /\ nRecvs < MaxRecvs
    /\ IF Len(chans[AlertQueue]) > 0
       THEN /\ rcvd' = [rcvd EXCEPT ![AlertQueue] =
                           Append(@, [item |-> Head(chans[AlertQueue]), by |-> r])]
            /\ chans' = [chans EXCEPT ![AlertQueue] = Tail(@)]
            /\ UNCHANGED waiting
       ELSE /\ waiting' = waiting \cup {r}
            /\ UNCHANGED <<rcvd, chans>>
    /\ nRecvs' = nRecvs + 1
    /\ UNCHANGED <<beaconBlock, sendq, pc, lastCall, nSends, sentOk, refused,
                   fillVars, bpVars, restVars>>

\* a receiver gives up waiting (its select took another case)
AlertLeave(r) ==
    /\ r \in waiting
    /\ waiting' = waiting \ {r}
    /\ UNCHANGED <<beaconBlock, chans, sendq, pc, lastCall, nSends, nRecvs, sentOk,
                   rcvd, refused, fillVars, bpVars, restVars>>

InitAlert ==
    /\ beaconBlock \in BOOLEAN
    /\ chans = [q \in {AlertQueue} |-> <<>>]
    /\ sendq = <<>>
    /\ pc = [p \in Producers |-> "idle"]
    /\ lastCall = NoCall
    /\ nSends = 0
    /\ nRecvs = 0
    /\ sentOk = [q \in {AlertQueue} |-> <<>>]
    /\ rcvd = [q \in {AlertQueue} |-> <<>>]
    /\ refused = {}
    /\ waiting = {}
    /\ FillIdle
    /\ BpIdle
    /\ RestIdle

NextAlert ==
    \/ \E p \in Producers : AlertSend(p)
    \/ \E r \in Receivers : AlertReceive(r)
    \/ \E r \in Receivers : AlertLeave(r)

SpecAlert == InitAlert /\ [][NextAlert]_vars

\* the step is a call of SendNoActiveBlockchainPeersAlert
AlertSendStep == nSends' = nSends + 1

\* the alerts received so far
AlertsReceived == rcvd[AlertQueue]

\* no alert is kept in the channel
NeverBuffered == chans[AlertQueue] = <<>>

\* a call returns nil only with a receiver blocked on the channel, and the
\* alert is handed to one of those receivers, which stops waiting
NilOnlyToWaiting ==
    (AlertSendStep /\ lastCall'.err = Nil) =>
        /\ waiting # {}
        /\ \E r \in waiting :
              /\ AlertsReceived' = Append(AlertsReceived,
                                          [item |-> lastCall'.item, by |-> r])
              /\ waiting' = waiting \ {r}

\* a call with no receiver blocked on the channel returns ErrChannelFull and
\* leaves nothing behind
FullWithoutReceiver ==
    (AlertSendStep /\ waiting = {}) =>
        /\ lastCall'.err = ErrChannelFull
        /\ AlertsReceived' = AlertsReceived
        /\ chans' = chans

\* a receiver gets an alert only in the step of the call that sent it
ReceivedOnlyInSend ==
    AlertsReceived' # AlertsReceived =>
        AlertSendStep /\ lastCall'.err = Nil

\* C32: the queue of the no-peer alert is a rendezvous: a call of
\* SendNoActiveBlockchainPeersAlert returns nil only when a receiver is
\* blocked on the queue at that moment, and hands the alert to that receiver;
\* with no receiver waiting it returns ErrChannelFull, and no alert is ever
\* buffered for a later receiver
C32_Rendezvous ==
    /\ []NeverBuffered
    /\ [][NilOnlyToWaiting /\ FullWithoutReceiver /\ ReceivedOnlyInSend]_vars

\* an alert was handed to a waiting receiver, and a later call with no
\* receiver waiting was refused
C32_Witness ==
    /\ Len(AlertsReceived) = 1
    /\ lastCall.err = ErrChannelFull
    /\ lastCall.item.id = 2
    /\ waiting = {}

\* a call was refused although a receiver came to wait afterwards
C32_LateReceiverWitness ==
    /\ refused # {}
    /\ waiting # {}
    /\ AlertsReceived = <<>>

-----------------------------------------------------------------------------
(* Client handler: ManageWSServer (SpecManage).  An http.Server is "new"     *)
(* until it listens, "serving" while ListenAndServe runs, "shutdown" after   *)
(* Shutdown.  The port is one: ListenAndServe fails while another server     *)
(* serves it.  Every go runWSServer() is a goroutine that first makes a      *)
(* server and stores it in ch.websocketServer, then listens on what          *)
(* ch.websocketServer holds at that moment.                                  *)

\* blockchain.NodeSyncStatus
Unsynced == "Unsynced"
Synced == "Synced"

\* ClientHandler as ManageWSServer finds it: websocketServer is the place of
\* a server in servers, 0 for nil
Manager(activeManagement, websocketServer, servers) ==
    [pc |-> "new", activeManagement |-> activeManagement,
     websocketServer |-> websocketServer, servers |-> servers, runners |-> <<>>,
     events |-> <<>>, last |-> "-", nUpdates |-> 0]

\* the servers that serve the port
Serving(servers) == {n \in 1..Len(servers) : servers[n] = "serving"}

\* http.Server.ListenAndServe on server n: the state of the server after the
\* call has started to serve or has returned with its error
ListenAndServe(servers, n) ==
    IF servers[n] = "new" /\ Serving(servers) = {} THEN "serving" ELSE servers[n]

\* go ch.runWSServer()
GoRunWSServer(mg) == [mg EXCEPT !.runners = Append(@, "go")]

\* ManageWSServer up to its loop
ManageStart ==
    /\ wsServer.pc = "new"
    /\ wsServer' = IF wsServer.activeManagement
                   THEN [wsServer EXCEPT !.pc = "loop"]
                   ELSE [GoRunWSServer(wsServer) EXCEPT !.pc = "loop"]
    /\ UNCHANGED <<bridgeVars, fillVars, bpVars, calcVars, chVars, subVars, wsReq,
                   wsOut>>

\* ManageWSServer receives a status update.  shutdownWSServer closes the
\* client connections and calls Shutdown on ch.websocketServer, which panics
\* when that is nil.
StatusUpdate(syncStatus) ==
    /\ wsServer.pc = "loop"
    /\ wsServer.nUpdates < MaxUpdates
    /\ LET mg == [wsServer EXCEPT !.nUpdates = @ + 1, !.last = syncStatus]
           srv == mg.websocketServer
       IN  wsServer' =
             IF ~mg.activeManagement THEN mg
             ELSE IF syncStatus # Unsynced THEN GoRunWSServer(mg)
             ELSE IF srv = 0
             THEN [mg EXCEPT !.pc = "panic", !.events = Append(@, "close all")]
             ELSE [mg EXCEPT !.servers[srv] = "shutdown",
                             !.events = @ \o <<"close all", "shutdown", "reset">>]
    /\ UNCHANGED <<bridgeVars, fillVars, bpVars, calcVars, chVars, subVars, wsReq,
                   wsOut>>

\* runWSServer: ch.websocketServer = NewWSServer(...)
RunNewServer(k) ==
    /\ wsServer.pc # "panic"
    /\ wsServer.runners[k] = "go"
    /\ wsServer' = [wsServer EXCEPT !.runners[k] = "made",
                                    !.servers = Append(@, "new"),
                                    !.websocketServer = Len(wsServer.servers) + 1]
    /\ UNCHANGED <<bridgeVars, fillVars, bpVars, calcVars, chVars, subVars, wsReq,
                   wsOut>>

\* runWSServer: ch.websocketServer.ListenAndServe()
RunListen(k) ==
    /\ wsServer.pc # "panic"
    /\ wsServer.runners[k] = "made"
    /\ LET srv == wsServer.websocketServer
       IN  wsServer' = [wsServer EXCEPT
               !.runners[k] = "listening",
               !.servers[srv] = ListenAndServe(wsServer.servers, srv)]
    /\ UNCHANGED <<bridgeVars, fillVars, bpVars, calcVars, chVars, subVars, wsReq,
                   wsOut>>

(* SpecManage: a handler made with no server or with one that never          *)
(* listened, with and without active management, and up to MaxUpdates        *)
(* status updates.                                                           *)
InitManage ==
    /\ BridgeStarts(FALSE, EmptyChans)
    /\ FillIdle
    /\ BpIdle
    /\ CalcIdle
    /\ HandlerIdle
    /\ SubmitIdle
    /\ wsReq = NoUpgrade
    /\ wsOut = NoUpgrade
    /\ \E activeManagement \in BOOLEAN, given \in BOOLEAN :
          wsServer = IF given THEN Manager(activeManagement, 1, <<"new">>)
                     ELSE Manager(activeManagement, 0, <<>>)

NextManage ==
    \/ ManageStart
    \/ \E syncStatus \in {Synced, Unsynced} : StatusUpdate(syncStatus)
    \/ \E k \in DOMAIN wsServer.runners : RunNewServer(k)
    \/ \E k \in DOMAIN wsServer.runners : RunListen(k)

SpecManage == InitManage /\ [][NextManage]_vars

\* ManageWSServer waits for an update and every goroutine of runWSServer has
\* come to its ListenAndServe
Settled ==
    /\ wsServer.pc = "loop"
    /\ \A k \in DOMAIN wsServer.runners : wsServer.runners[k] = "listening"

\* the events of shutdownWSServer and the reset come in threes, in order
InOrder(events) ==
    /\ Len(events) % 3 = 0
    /\ \A n \in 1..Len(events) :
          events[n] = CASE n % 3 = 1 -> "close all"
                        [] n % 3 = 2 -> "shutdown"
                        [] OTHER -> "reset"

\* C33: under active management every Unsynced update closes the client
\* connections, shuts the listener down and broadcasts one reset, in this
\* order, and every other update starts the listener; at most one listener
\* serves, and once things have settled one serves exactly if the last
\* update was not Unsynced; without active management the listener is
\* started once and the updates are only consumed
C33_Managed ==
    /\ Cardinality(Serving(wsServer.servers)) <= 1
    /\ wsServer.pc # "panic"
    /\ InOrder(wsServer.events)
    /\ (Settled /\ wsServer.activeManagement /\ wsServer.last # "-") =>
          (Serving(wsServer.servers) # {} <=> wsServer.last # Unsynced)
    /\ (Settled /\ ~wsServer.activeManagement) =>
          /\ Len(wsServer.runners) = 1
          /\ Serving(wsServer.servers) # {}
          /\ wsServer.events = <<>>

\* what holds of the code: at most one listener serves; without active
\* management it is started once and nothing else is done; with it, the
\* events of every Unsynced update that did not panic are in order, one
\* goroutine is started for every other update, and the server shut down is
\* the one ch.websocketServer names
C33_ManagedOfCode ==
    /\ Cardinality(Serving(wsServer.servers)) <= 1
    /\ wsServer.pc = "loop" => InOrder(wsServer.events)
    /\ wsServer.pc = "panic" =>
          wsServer.websocketServer = 0 /\ wsServer.last = Unsynced
    /\ (Settled /\ ~wsServer.activeManagement) =>
          /\ Len(wsServer.runners) = 1
          /\ Serving(wsServer.servers) # {}
          /\ wsServer.events = <<>>
    /\ (wsServer.pc = "loop" /\ wsServer.activeManagement) =>
          Len(wsServer.runners) + Len(wsServer.events) \div 3 = wsServer.nUpdates

\* two updates that are not Unsynced and then Unsynced: the second server was
\* shut down, and the first still serves
C33_StillServingWitness ==
    /\ Settled
    /\ wsServer.activeManagement
    /\ wsServer.last = Unsynced
    /\ wsServer.nUpdates = 3
    /\ Serving(wsServer.servers) # {}
    /\ wsServer.servers[wsServer.websocketServer] = "shutdown"

\* Unsynced as the first update of a handler made without a server
C33_PanicWitness ==
    /\ wsServer.pc = "panic"
    /\ wsServer.nUpdates = 1
    /\ wsServer.events = <<"close all">>

\* Synced, then Unsynced: the listener was shut down, in order
C33_ShutdownWitness ==
    /\ Settled
    /\ wsServer.activeManagement
    /\ wsServer.last = Unsynced
    /\ wsServer.nUpdates = 2
    /\ Serving(wsServer.servers) = {}
    /\ wsServer.events = <<"close all", "shutdown", "reset">>
    /\ Len(wsServer.runners) = 1

-----------------------------------------------------------------------------
(* Block processor: callers that share one processor (SpecShared).  A call   *)
(* looks the key up in the processed set when it starts and marks it when    *)
(* it has succeeded; between the two, other callers run.                     *)

Callers == 1..MaxCallers

\* a call of BxBlockToBroadcast or BxBlockFromBroadcast and its argument
ToCall(block) == [op |-> "BxBlockToBroadcast", block |-> block, bc |-> NoBroadcast]
FromCall(bc) == [op |-> "BxBlockFromBroadcast", block |-> NoBlock, bc |-> bc]

\* the key the call deduplicates on, and the keys it marks when it succeeds
CallKey(call) ==
    IF call.op = "BxBlockToBroadcast" THEN DedupKey(call.block)
    ELSE BroadcastKey(call.bc)
CallMarks(call) ==
    IF call.op = "BxBlockToBroadcast" THEN {DedupKey(call.block)}
    ELSE MarkedHashes(call.bc)

\* the error of the call when its check saw the processed set hh
CallErr(call, hh, store, t) ==
    IF call.op = "BxBlockToBroadcast"
    THEN BxBlockToBroadcast(call.block, 5, 0, hh, store, t).err
    ELSE BxBlockFromBroadcast(call.bc, hh, store, t).err

\* markProcessed for each of the keys
MarkAll(hh, keys, t) ==
    [k \in DOMAIN hh \cup keys |->
        IF k \in keys THEN markProcessed(hh, k, t)[k] ELSE hh[k]]

\* a caller that has not called, has checked, has returned
Inflight(at, call, seen, err, after) ==
    [pc |-> at, call |-> call, seen |-> seen, err |-> err, after |-> after]

\* caller c enters the call: ShouldProcess is answered from the processed
\* set as it is now; after is the set of callers that had returned by then
CallBegin(c, call) ==
    /\ c \in DOMAIN inflight
    /\ inflight[c].pc = "idle"
    /\ inflight' = [inflight EXCEPT ![c] =
           Inflight("checked", call, processedBlocks, Nil,
                    {d \in DOMAIN inflight : inflight[d].pc = "returned"})]
    /\ UNCHANGED <<processedBlocks, txStore, now, blk, wire, bpLast, bpTurn, encodedAt,
                   expandedAt, bridgeVars, fillVars, restVars>>

\* caller c leaves the call: with the answer its check got, the call fails
\* or does its work and marks its keys in the processed set as it is now
CallEnd(c) ==
    /\ c \in DOMAIN inflight
    /\ inflight[c].pc = "checked"
    /\ LET call == inflight[c].call
           err == CallErr(call, inflight[c].seen, txStore, now)
       IN  /\ inflight' = [inflight EXCEPT ![c].pc = "returned", ![c].err = err]
           /\ processedBlocks' = IF err = Nil
                                 THEN MarkAll(processedBlocks, CallMarks(call), now)
                                 ELSE processedBlocks
    /\ UNCHANGED <<txStore, now, blk, wire, bpLast, bpTurn, encodedAt, expandedAt,
                   bridgeVars, fillVars, restVars>>

\* the blocks of SpecShared, and the broadcasts a peer made of them
SharedBlocks == {b \in DedupBlocks : b.Type \in {BxBlockTypeEth, "BeaconPhase0"}
                                     /\ b.Hash = "h1" /\ DedupKey(b) # EmptyHash
                                     /\ b.Txs = <<>>}
SharedCalls ==
    {ToCall(b) : b \in SharedBlocks}
        \cup {FromCall(BxBlockToBroadcast(b, 5, 0, EmptyMap, EmptyMap, 0).bc) :
                 b \in SharedBlocks}

InitShared ==
    /\ BridgeStarts(FALSE, EmptyChans)
    /\ FillIdle
    /\ processedBlocks = EmptyMap
    /\ txStore = EmptyMap
    /\ now = 0
    /\ blk = NoBlock
    /\ wire = NoWire
    /\ bpLast = NoBpCall
    /\ bpTurn = 0
    /\ inflight = [c \in Callers |->
                      Inflight("idle", ToCall(NoBlock), EmptyMap, Nil, {})]
    /\ encodedAt = EmptyMap
    /\ expandedAt = EmptyMap
    /\ RestIdle

NextShared ==
    \/ \E c \in Callers, call \in SharedCalls : CallBegin(c, call)
    \/ \E c \in Callers : CallEnd(c)

SpecShared == InitShared /\ [][NextShared]_vars

\* the callers that have returned from a call for the key of caller c's call
ReturnedFor(c) ==
    {d \in DOMAIN inflight \ {c} :
        /\ inflight[d].pc = "returned"
        /\ CallKey(inflight[d].call) = CallKey(inflight[c].call)}

C36_FromThenToWitness ==
    \E c, d \in DOMAIN inflight :
        /\ inflight[c].pc = "returned"
        /\ d \in ReturnedFor(c)
        /\ d \in inflight[c].after
        /\ inflight[d].call.op = "BxBlockFromBroadcast"
        /\ inflight[d].err = Nil
        /\ inflight[c].call.op = "BxBlockToBroadcast"
        /\ inflight[c].err = ErrAlreadyProcessed

\* two calls of the same block that overlapped have both succeeded
C36_BothWitness ==
    \E c, d \in DOMAIN inflight :
        /\ c # d
        /\ inflight[c].pc = "returned" /\ inflight[d].pc = "returned"
        /\ inflight[c].call = inflight[d].call
        /\ inflight[c].err = Nil /\ inflight[d].err = Nil

-----------------------------------------------------------------------------
(* SpecRetry: a processor compresses a block or gets a broadcast from a     *)
(* peer, while the store loses transactions and gets them again.            *)

\* the store learns of the transaction of hash h under its short ID
StoreAdd(h) ==
    /\ h \notin DOMAIN txStore
    /\ txStore' = [k \in DOMAIN txStore \cup {h} |->
                      IF k = h
                      THEN [hash |-> h, content |-> TxContent(h),
                            shortIDs |-> <<Sid(h)>>, addTime |-> 0]
                      ELSE txStore[k]]
    /\ UNCHANGED <<processedBlocks, now, blk, inflight, wire, bpLast, bpTurn, encodedAt,
                   expandedAt, bridgeVars, fillVars, restVars>>

InitRetry ==
    /\ BridgeStarts(FALSE, EmptyChans)
    /\ FillIdle
    /\ processedBlocks = EmptyMap
    /\ txStore \in {st \in TxStores :
                       \A h \in DOMAIN st : st[h].shortIDs = <<Sid(h)>>
                                            /\ st[h].addTime = 0
                                            /\ st[h].content # NoBytes}
    /\ now = 10
    /\ \/ /\ blk \in EthBlocks \cup BeaconBlocks \cup UnknownBlocks
          /\ wire = NoWire
       \/ /\ blk \in UnknownBlocks
          /\ wire \in {[bc |-> bc, from |-> NoBlock, minTxAge |-> 0, fresh |-> FALSE] :
                          bc \in PeerBroadcasts}
    /\ bpLast = NoBpCall
    /\ bpTurn = 0
    /\ inflight = EmptyMap
    /\ encodedAt = EmptyMap
    /\ expandedAt = EmptyMap
    /\ RestIdle

NextRetry ==
    \/ DoBxBlockToBroadcast(blk, 5, 0)
    \/ DoBxBlockFromBroadcast
    \/ NewBlockProcessor
    \/ \E h \in TxHashes : StoreRemove(h)
    \/ \E h \in TxHashes : StoreAdd(h)

SpecRetry == InitRetry /\ [][NextRetry]_vars

\* the errors of the codecs
CodecErrors == {ErrMoreEmptyThanShortIDs, ErrNegativeBigInt, ErrDecode, ErrSSZSize}

\* the step is a call of the block processor that fails
FailingCall == (ToBroadcastStep \/ FromBroadcastStep) /\ bpLast'.err # Nil

\* the step is one more BxBlockFromBroadcast of the broadcast that the last
\* call found short IDs missing for, and the store now resolves them all
RetryResolved ==
    /\ FromBroadcastStep
    /\ bpLast.op = "BxBlockFromBroadcast"
    /\ bpLast.err = ErrMissingShortIDs
    /\ bpLast.bc = wire.bc
    /\ Lookup(wire.bc.ShortIDs, txStore).missingShortIDs = <<>>

\* the payload of the broadcast decodes with the transactions of the store
Decodes(bc, store) ==
    LET found == Lookup(bc.ShortIDs, store)
    IN IF bc.BlockType = BxBlockTypeEth
       THEN newBxBlockFromRLPBroadcast(bc, found.bxTransactions).err = Nil
       ELSE newBxBlockFromSSZBroadcast(bc, found.bxTransactions).err = Nil

\* C37: a call of BxBlockToBroadcast or BxBlockFromBroadcast that fails, with
\* AlreadyProcessed, UnknownBlockType, NotCompatibleBeaconBlock,
\* MissingShortIDs or an error of a codec, leaves the processed set as it
\* was; and a BxBlockFromBroadcast repeated after MissingShortIDs, once the
\* store resolves all the short IDs of the broadcast, is not refused as
\* processed or missing and succeeds when the payload decodes, as that of
\* every broadcast BxBlockToBroadcast made does
C37_FailureFrame ==
    /\ [][FailingCall => processedBlocks' = processedBlocks]_vars
    /\ [][RetryResolved =>
            /\ bpLast'.err \notin {ErrAlreadyProcessed, ErrMissingShortIDs}
            /\ Decodes(wire.bc, txStore) => bpLast'.err = Nil
            /\ wire.from # NoBlock => bpLast'.err = Nil]_vars

\* C37 read without a condition on the payload: the repeated call succeeds
C37_RetrySucceeds == [][RetryResolved => bpLast'.err = Nil]_vars

\* BxBlockFromBroadcast has found short IDs missing for a broadcast that
\* BxBlockToBroadcast made, none of its hashes is marked, and the store now
\* resolves all its short IDs: the call is about to be repeated
C37_Witness ==
    /\ bpLast.op = "BxBlockFromBroadcast"
    /\ bpLast.err = ErrMissingShortIDs
    /\ bpLast.bc = wire.bc
    /\ wire.from # NoBlock
    /\ MarkedHashes(wire.bc) \cap DOMAIN processedBlocks = {}
    /\ Lookup(wire.bc.ShortIDs, txStore).missingShortIDs = <<>>

\* BxBlockFromBroadcast has succeeded for a broadcast with short IDs that
\* BxBlockToBroadcast made, and its hashes are marked
C37_RetriedWitness ==
    /\ bpLast.op = "BxBlockFromBroadcast"
    /\ bpLast.err = Nil
    /\ bpLast.bc = wire.bc
    /\ wire.from # NoBlock
    /\ Len(wire.bc.ShortIDs) > 0
    /\ DOMAIN processedBlocks = MarkedHashes(wire.bc)

\* no step repeats a call whose short IDs the store has come to resolve
C37_NoRetry == [][~RetryResolved]_vars

\* a call has failed with error e on a processor that had marked a hash
FailedWith(e) == bpLast.err = e /\ processedBlocks # EmptyMap

\* each of the failures but MissingShortIDs has happened on such a processor
C37_AlreadyWitness == FailedWith(ErrAlreadyProcessed)
C37_UnknownWitness == FailedWith(ErrUnknownBlockType)
C37_NotCompatibleWitness == FailedWith(ErrNotCompitableBeaconBlock)

\* a codec has refused a block, and a broadcast
C37_EncodeWitness == bpLast.err \in CodecErrors /\ bpLast.op = "BxBlockToBroadcast"
C37_DecodeWitness == bpLast.err \in CodecErrors /\ bpLast.op = "BxBlockFromBroadcast"

====
